---- MODULE Spec2Model ----
(***************************************************************************)
(* IPTV-CHECK (src/iptv_check.py): the concurrent validation engine.       *)
(*                                                                         *)
(* Two front ends drive the CheckerBase state:                             *)
(*   - AppGUI: a Tk tick loop (_monitor_workers every 100 ms) that polls   *)
(*     the probe processes, with one preparation thread per admitted       *)
(*     record and after(0, ...) callbacks into the main loop;              *)
(*   - AppCLI: a pool of worker threads that each block on their own       *)
(*     probe process.                                                      *)
(* Handlers are pure operators over a record of the program state; every   *)
(* action applies one whole handler, the synchronous calls it makes        *)
(* included.  External processes, the clock and the file system outside    *)
(* the three playlist files are the environment: their answers are the     *)
(* \E-bound inputs of the actions.                                         *)
(***************************************************************************)
EXTENDS Integers, Sequences, FiniteSets, TLC

VARIABLES
    frontend,           \* "gui" (AppGUI) or "cli" (AppCLI): which main() branch runs
    is_running,         \* CheckerBase.is_running
    current_check_id,   \* CheckerBase.current_check_id; None is 0
    is_rechecking,      \* AppGUI.is_rechecking / run()'s is_recheck
    streams_to_check,   \* CheckerBase.streams_to_check (the CLI's queue copy)
    known_good_urls,    \* AppGUI.known_good_urls / run()'s known_good_urls
    active_processes,   \* CheckerBase.active_processes, in insertion order
    processed_count,
    online_count,
    uncheckable_count,
    total_stream_count, \* AppGUI.total_stream_count / AppCLI.total_streams
    journal_file,       \* TRUE while the handle on "<output>.part" is open
    uncheckable_file,   \* TRUE while the handle on "uncheckable.m3u" is open
    part_file,          \* "<output>.part" on disk
    output_file,        \* the output playlist on disk
    uncheckable_disk,   \* "uncheckable.m3u" on disk
    temp_files,         \* the capture artifacts on disk, by owning task
    use_ocr,            \* use_ocr_var / args.ocr
    workers_var,        \* workers_var / args.workers
    threads,            \* GUI: preparation threads started and not yet finished
    callbacks,          \* GUI: after(0, ...) callbacks not yet delivered
    ticks,              \* GUI: pending after(100, _monitor_workers) timers
    workers,            \* CLI: each worker thread's position and locals
    cli_main,           \* CLI: position of run() in the main thread
    status,             \* detailed status of each retired task of the session
    end_kind,           \* how the last session ended, as logged
    stale_drops,        \* number of callbacks discarded as stale
    child_only_kills,   \* timed-out probes killed without their process group
    check_clock,        \* time.time() as a strictly increasing session stamp
    lock,               \* CheckerBase.lock (an RLock): the owning worker thread and its depth
    retiring,           \* CLI: the calls of _handle_cli_result / _handle_cli_failure under way
    essential_deps,     \* check_dependencies: each essential tool, TRUE when shutil.which found it
    timeout_var,        \* timeout_var / args.timeout: the network timeout in seconds
    OCR_FAILED_ONCE,    \* the module global OCR_FAILED_ONCE
    ocr_notices,        \* times "[!] OCR check failed" was logged
    loads               \* playlists loaded by do_start_check whose _start_check_internal is posted

vars == <<frontend, is_running, current_check_id, is_rechecking, streams_to_check,
          known_good_urls,
          active_processes, processed_count, online_count, uncheckable_count,
          total_stream_count, journal_file, uncheckable_file, part_file,
          output_file, uncheckable_disk, temp_files, use_ocr, workers_var,
          threads, callbacks, ticks, workers, cli_main, status, end_kind,
          stale_drops, child_only_kills, check_clock,
          lock,
          retiring,
          essential_deps,
          timeout_var,
          OCR_FAILED_ONCE,
          ocr_notices,
          loads>>

(***************************************************************************)
(* Bounds of the model.                                                    *)
(***************************************************************************)
MaxStreams == 2     \* longest input playlist
MaxWorkers == 2     \* largest worker count offered
MaxRestarts == 1    \* GUI sessions started after the first one
MaxLoads == 2       \* GUI: loads under way at the same time

(***************************************************************************)
(* Program constants.                                                      *)
(***************************************************************************)
MIN_FILE_SIZE_BYTES == 100
WORKER_PROCESS_TIMEOUT_SECONDS == 30
UNCHECKABLE_URL_LENGTH_THRESHOLD == 250
PART_MIN_SIZE == 15         \* os.path.getsize(part_file_path) > 15
None == 0

(***************************************************************************)
(* Stream records.  A URL is a name; what the code reads of it (its        *)
(* length, the keywords and host patterns it contains) is tabulated.       *)
(***************************************************************************)
UrlPlain == "http://a/1.ts"
UrlToken == "http://youtu.be/b?token=1"

Urls == {UrlPlain, UrlToken}

\* two more short URLs without keyword, for playlists of three different records
UrlSecond == "http://a/2.ts"
UrlThird == "http://a/3.ts"

\* len(url)
UrlLen(url) ==
    CASE url = UrlPlain -> 13
      [] url = UrlToken -> 25
      [] url = UrlSecond -> 13
      [] url = UrlThird -> 13

\* any(kw in url.lower() for kw in UNCHECKABLE_KEYWORDS)
HasUncheckableKeyword(url) == url = UrlToken

\* 'youtube.com/' in final_url or 'youtu.be/' in final_url
IsYouTube(url) == url = UrlToken

StreamUniverse ==
    { [title |-> "A", url |-> UrlPlain, group |-> "News"],
      [title |-> "B", url |-> UrlToken, group |-> "General"] }

RECURSIVE SeqsUpTo(_, _)
SeqsUpTo(S, n) ==
    IF n = 0 THEN { <<>> }
    ELSE LET shorter == SeqsUpTo(S, n - 1)
         IN  shorter \cup { Append(q, x) : q \in shorter, x \in S }

(***************************************************************************)
(* Playlist files: a file is absent or holds a sequence of lines, each the *)
(* header "#EXTM3U\n\n" or one entry block.                                *)
(***************************************************************************)
HeaderLine == [tag |-> "EXTM3U", group |-> "", title |-> "", url |-> ""]
EntryLine(stream_info) ==
    [tag |-> "EXTINF", group |-> stream_info.group,
     title |-> stream_info.title, url |-> stream_info.url]

NoFile == [exists |-> FALSE, content |-> <<>>]
File(content) == [exists |-> TRUE, content |-> content]

\* bytes of one line as written by write_m3u_header / write_m3u_entry
LineBytes(line) ==
    IF line.tag = "EXTM3U" THEN 9
    ELSE 29 + Len(line.group) + Len(line.title) + UrlLen(line.url)

RECURSIVE ContentBytes(_)
ContentBytes(content) ==
    IF content = <<>> THEN 0
    ELSE LineBytes(Head(content)) + ContentBytes(Tail(content))

\* os.path.getsize: the utf-8-sig codec puts a 3 byte mark before the first write
GetSize(f) == IF f.content = <<>> THEN 0 ELSE 3 + ContentBytes(f.content)

IsEntry(line) == line.tag = "EXTINF"
Entries(content) == SelectSeq(content, IsEntry)

RECURSIVE Count(_, _)
Count(content, line) ==
    IF content = <<>> THEN 0
    ELSE (IF Head(content) = line THEN 1 ELSE 0) + Count(Tail(content), line)

\* new_content.replace("#EXTM3U\n\n", "", 1)
RECURSIVE StripFirstHeader(_)
StripFirstHeader(content) ==
    IF content = <<>> THEN <<>>
    ELSE IF Head(content) = HeaderLine THEN Tail(content)
    ELSE <<Head(content)>> \o StripFirstHeader(Tail(content))

\* write_m3u_header: nothing when the handle is None
WriteHeader(handle, f) ==
    IF handle THEN File(Append(f.content, HeaderLine)) ELSE f

\* write_m3u_entry: nothing when the handle is None; flushed at once
WriteEntry(handle, f, stream_info) ==
    IF handle THEN File(Append(f.content, EntryLine(stream_info))) ELSE f

\* parse_m3u on a file of whole lines: an entry is a record when its title
\* is not empty; an empty group reads as "General"
RECURSIVE ParseM3u(_)
ParseM3u(content) ==
    IF content = <<>> THEN <<>>
    ELSE LET l == Head(content)
         IN  (IF IsEntry(l) /\ l.title # ""
              THEN << [title |-> l.title, url |-> l.url,
                       group |-> IF l.group = "" THEN "General" ELSE l.group] >>
              ELSE <<>>) \o ParseM3u(Tail(content))

RECURSIVE UrlsOf(_)
UrlsOf(streams) ==
    IF streams = <<>> THEN {} ELSE {Head(streams).url} \cup UrlsOf(Tail(streams))

\* a faulty variant of the filter: every record is kept
SkipKnownNothing(all_streams, known) == all_streams

\* [s for s in all_streams if s['url'] not in known_good_urls]
RECURSIVE SkipKnown(_, _)
SkipKnown(all_streams, known) ==
    IF all_streams = <<>> THEN <<>>
    ELSE (IF Head(all_streams).url \in known THEN <<>>
          ELSE <<Head(all_streams)>>) \o SkipKnown(Tail(all_streams), known)

\* len(url) > UNCHECKABLE_URL_LENGTH_THRESHOLD or any(kw in url.lower() ...)
IsUncheckable(url) ==
    UrlLen(url) > UNCHECKABLE_URL_LENGTH_THRESHOLD \/ HasUncheckableKeyword(url)

\* "ON" in detailed_status
IsOn(detailed_status) == detailed_status \in {"ON", "ON (OCR Failed)"}

(***************************************************************************)
(* The program state as one record, so that a handler is an operator from  *)
(* state to state and a synchronous call is an application.                *)
(***************************************************************************)
State ==
    [frontend |-> frontend, is_running |-> is_running,
     current_check_id |-> current_check_id, is_rechecking |-> is_rechecking,
     streams_to_check |-> streams_to_check, known_good_urls |-> known_good_urls,
     active_processes |-> active_processes,
     processed_count |-> processed_count, online_count |-> online_count,
     uncheckable_count |-> uncheckable_count,
     total_stream_count |-> total_stream_count, journal_file |-> journal_file,
     uncheckable_file |-> uncheckable_file, part_file |-> part_file,
     output_file |-> output_file, uncheckable_disk |-> uncheckable_disk,
     temp_files |-> temp_files, use_ocr |-> use_ocr, workers_var |-> workers_var,
     threads |-> threads, callbacks |-> callbacks, ticks |-> ticks,
     workers |-> workers, cli_main |-> cli_main, status |-> status,
     end_kind |-> end_kind, stale_drops |-> stale_drops, child_only_kills |-> child_only_kills,
     check_clock |-> check_clock,
     lock |-> lock,
     retiring |-> retiring,
     essential_deps |-> essential_deps,
     timeout_var |-> timeout_var,
     OCR_FAILED_ONCE |-> OCR_FAILED_ONCE,
     ocr_notices |-> ocr_notices,
     loads |-> loads]

Becomes(s) ==
    /\ frontend' = s.frontend
    /\ is_running' = s.is_running
    /\ current_check_id' = s.current_check_id
    /\ is_rechecking' = s.is_rechecking
    /\ streams_to_check' = s.streams_to_check
    /\ known_good_urls' = s.known_good_urls
    /\ active_processes' = s.active_processes
    /\ processed_count' = s.processed_count
    /\ online_count' = s.online_count
    /\ uncheckable_count' = s.uncheckable_count
    /\ total_stream_count' = s.total_stream_count
    /\ journal_file' = s.journal_file
    /\ uncheckable_file' = s.uncheckable_file
    /\ part_file' = s.part_file
    /\ output_file' = s.output_file
    /\ uncheckable_disk' = s.uncheckable_disk
    /\ temp_files' = s.temp_files
    /\ use_ocr' = s.use_ocr
    /\ workers_var' = s.workers_var
    /\ threads' = s.threads
    /\ callbacks' = s.callbacks
    /\ ticks' = s.ticks
    /\ workers' = s.workers
    /\ cli_main' = s.cli_main
    /\ status' = s.status
    /\ end_kind' = s.end_kind
    /\ stale_drops' = s.stale_drops
    /\ child_only_kills' = s.child_only_kills
    /\ check_clock' = s.check_clock
    /\ lock' = s.lock
    /\ retiring' = s.retiring
    /\ essential_deps' = s.essential_deps
    /\ timeout_var' = s.timeout_var
    /\ OCR_FAILED_ONCE' = s.OCR_FAILED_ONCE
    /\ ocr_notices' = s.ocr_notices
    /\ loads' = s.loads

\* a task is known by the session that admitted it and its place in that
\* session's list; its capture artifact is named after it
TaskKey(check_id, idx) == [check_id |-> check_id, idx |-> idx]

FailureCallback(idx, stream_info, reason, check_id) ==
    [kind |-> "_handle_worker_failure", idx |-> idx, stream_info |-> stream_info,
     check_id |-> check_id, reason |-> reason, check_type |-> "-"]

ScheduleCallback(idx, stream_info, check_type, check_id) ==
    [kind |-> "_schedule_process", idx |-> idx, stream_info |-> stream_info,
     check_id |-> check_id, reason |-> "-", check_type |-> check_type]

(***************************************************************************)
(* What the environment can answer.                                        *)
(***************************************************************************)
OcrResults == {"ON", "OFF (OCR: Error Screen)", "ON (OCR Failed)"}

\* one look at a probe process: rc is proc.poll() (NoExit while it runs),
\* elapsed is now - start_time, size the bytes of the capture artifact, ocr
\* what _perform_ocr_check would return
NoExit == 0 - 1
Running(elapsed) == [rc |-> NoExit, elapsed |-> elapsed, size |-> 0, ocr |-> "ON"]
Exited(rc, size, ocr) == [rc |-> rc, elapsed |-> 1, size |-> size, ocr |-> ocr]

Looks(probe_type) ==
    { Running(e) : e \in {WORKER_PROCESS_TIMEOUT_SECONDS,
                          WORKER_PROCESS_TIMEOUT_SECONDS + 1} }
    \cup { Exited(1, 0, "ON") }
    \cup (IF probe_type = "ffprobe"
          THEN { Exited(0, 0, "ON") }
          ELSE { Exited(0, MIN_FILE_SIZE_BYTES - 1, "ON") }
               \cup { Exited(0, MIN_FILE_SIZE_BYTES, o) : o \in OcrResults })

AllLooks == Looks("ffprobe") \cup Looks("ffmpeg")

\* one look per active process, in the order of active_processes
LooksAt(active) ==
    { obs \in [1..Len(active) -> AllLooks] :
        \A k \in 1..Len(active) : obs[k] \in Looks(active[k].probe_type) }

\* how run_in_thread / _prepare_stream can end for a record
PrepareOutcomes(stream_info) ==
    {"video", "audio", "exception"}
    \cup (IF IsYouTube(stream_info.url) THEN {"yt-dlp failed"} ELSE {})

(***************************************************************************)
(* CheckerBase and AppGUI handlers.                                        *)
(***************************************************************************)

\* a faulty variant of _force_kill_worker: the capture artifact is left
ForceKillWorkerKeepFile(s, data) == s

\* CheckerBase._force_kill_worker: SIGKILL to the whole process group
\* (taskkill /T on Windows), then the capture artifact is removed
ForceKillWorker(s, data) ==
    [s EXCEPT !.temp_files = @ \ {TaskKey(data.check_id, data.idx)}]

RECURSIVE ForceKillAll(_, _)
ForceKillAll(s, procs) ==
    IF procs = <<>> THEN s
    ELSE ForceKillAll(ForceKillWorker(s, Head(procs)), Tail(procs))

\* a faulty variant of Promote: the staging file is moved over the output
\* file in fresh mode too, instead of being appended to it
PromoteOverwrite(s, recheck) ==
    LET part == s.part_file
        full == part.exists /\ GetSize(part) > PART_MIN_SIZE
    IN  IF full
        THEN [s EXCEPT !.output_file = File(part.content), !.part_file = NoFile]
        ELSE IF recheck
             THEN [s EXCEPT !.output_file = NoFile, !.part_file = NoFile]
             ELSE [s EXCEPT !.part_file = NoFile]

\* a faulty variant of Promote: the staging file is always taken for empty
PromoteDropped(s, recheck) ==
    IF recheck
    THEN [s EXCEPT !.output_file = NoFile, !.part_file = NoFile]
    ELSE [s EXCEPT !.part_file = NoFile]

\* a faulty variant of Promote: after a recheck with an empty staging file
\* the output file is left as it was
PromoteKeepStale(s, recheck) ==
    LET part == s.part_file
        out  == s.output_file
        full == part.exists /\ GetSize(part) > PART_MIN_SIZE
    IN  IF full
        THEN IF recheck
             THEN [s EXCEPT !.output_file = File(part.content), !.part_file = NoFile]
             ELSE [s EXCEPT
                     !.output_file =
                         File(out.content
                              \o (IF ~out.exists \/ GetSize(out) = 0
                                  THEN <<HeaderLine>> ELSE <<>>)
                              \o StripFirstHeader(part.content)),
                     !.part_file = NoFile]
        ELSE [s EXCEPT !.part_file = NoFile]

\* a faulty variant of Promote: in fresh mode the staging file is appended
\* with its own header
PromoteKeepHeader(s, recheck) ==
    LET part == s.part_file
        out  == s.output_file
        full == part.exists /\ GetSize(part) > PART_MIN_SIZE
    IN  IF recheck
        THEN IF full
             THEN [s EXCEPT !.output_file = File(part.content), !.part_file = NoFile]
             ELSE [s EXCEPT !.output_file = NoFile, !.part_file = NoFile]
        ELSE IF full
             THEN [s EXCEPT
                     !.output_file =
                         File(out.content
                              \o (IF ~out.exists \/ GetSize(out) = 0
                                  THEN <<HeaderLine>> ELSE <<>>)
                              \o part.content),
                     !.part_file = NoFile]
             ELSE [s EXCEPT !.part_file = NoFile]

\* a faulty variant of Promote: in recheck mode the staging file is appended
\* to the output file as in fresh mode
PromoteAppendAlways(s, recheck) ==
    LET part == s.part_file
        out  == s.output_file
        full == part.exists /\ GetSize(part) > PART_MIN_SIZE
    IN  IF full
        THEN [s EXCEPT
                !.output_file =
                    File(out.content
                         \o (IF ~out.exists \/ GetSize(out) = 0
                             THEN <<HeaderLine>> ELSE <<>>)
                         \o StripFirstHeader(part.content)),
                !.part_file = NoFile]
        ELSE IF recheck
             THEN [s EXCEPT !.output_file = NoFile, !.part_file = NoFile]
             ELSE [s EXCEPT !.part_file = NoFile]

\* a faulty variant of Promote: a staging file too small to be kept is
\* left on disk
PromoteLeavePart(s, recheck) ==
    LET part == s.part_file
        out  == s.output_file
        full == part.exists /\ GetSize(part) > PART_MIN_SIZE
    IN  IF full
        THEN IF recheck
             THEN [s EXCEPT !.output_file = File(part.content), !.part_file = NoFile]
             ELSE [s EXCEPT
                     !.output_file =
                         File(out.content
                              \o (IF ~out.exists \/ GetSize(out) = 0
                                  THEN <<HeaderLine>> ELSE <<>>)
                              \o StripFirstHeader(part.content)),
                     !.part_file = NoFile]
        ELSE IF recheck THEN [s EXCEPT !.output_file = NoFile] ELSE s

\* the file moves at the end of stop_processing / _finalize_check
Promote(s, recheck) ==
    LET part == s.part_file
        out  == s.output_file
        full == part.exists /\ GetSize(part) > PART_MIN_SIZE
    IN  IF recheck
        THEN IF full
             THEN [s EXCEPT !.output_file = File(part.content), !.part_file = NoFile]
             ELSE [s EXCEPT !.output_file = NoFile, !.part_file = NoFile]
        ELSE IF full
             THEN LET output_needs_header == ~out.exists \/ GetSize(out) = 0
                  IN  [s EXCEPT
                         !.output_file =
                             File(out.content
                                  \o (IF output_needs_header THEN <<HeaderLine>> ELSE <<>>)
                                  \o StripFirstHeader(part.content)),
                         !.part_file = NoFile]
             ELSE [s EXCEPT !.part_file = NoFile]

\* a faulty variant of stop_processing: current_check_id is left as it is
StopProcessingKeepId(s) ==
    LET s1 == [s EXCEPT !.is_running = FALSE, !.active_processes = <<>>]
        s2 == ForceKillAll(s1, s.active_processes)
        s3 == [s2 EXCEPT !.journal_file = FALSE, !.uncheckable_file = FALSE]
    IN  Promote(s3, s.is_rechecking)

\* AppGUI.stop_processing
StopProcessing(s) ==
    LET s1 == [s EXCEPT !.is_running = FALSE, !.current_check_id = None,
                        !.active_processes = <<>>]
        s2 == ForceKillAll(s1, s.active_processes)
        s3 == [s2 EXCEPT !.journal_file = FALSE, !.uncheckable_file = FALSE]
    IN  Promote(s3, s.is_rechecking)

\* a faulty variant of _handle_worker_failure: no test of the check id
HandleWorkerFailureUnchecked(s, stream_info, idx, reason, check_id) ==
    [s EXCEPT !.processed_count = @ + 1]

\* AppGUI._handle_worker_failure
HandleWorkerFailure(s, stream_info, idx, reason, check_id) ==
    IF check_id # s.current_check_id
    THEN [s EXCEPT !.stale_drops = @ + 1]
    ELSE [s EXCEPT !.processed_count = @ + 1,
                   !.status[idx].detailed_status = "OFF " \o reason]

\* a faulty variant of the classification: a capture of exactly
\* MIN_FILE_SIZE_BYTES is taken for too small
DetailedStatusAboveOnly(s, data, look) ==
    IF data.probe_type = "ffprobe"
    THEN IF look.rc = 0 THEN "ON" ELSE "OFF (Probe Error)"
    ELSE IF /\ look.rc = 0
            /\ TaskKey(data.check_id, data.idx) \in s.temp_files
            /\ look.size > MIN_FILE_SIZE_BYTES
         THEN IF data.check_type = "video" /\ s.use_ocr THEN look.ocr ELSE "ON"
         ELSE "OFF (Capture Error)"

\* a faulty variant of the classification: a capture whose OCR step failed
\* is taken for offline
DetailedStatusOcrStrict(s, data, look) ==
    IF data.probe_type = "ffprobe"
    THEN IF look.rc = 0 THEN "ON" ELSE "OFF (Probe Error)"
    ELSE IF /\ look.rc = 0
            /\ TaskKey(data.check_id, data.idx) \in s.temp_files
            /\ look.size >= MIN_FILE_SIZE_BYTES
         THEN IF data.check_type = "video" /\ s.use_ocr
              THEN (IF look.ocr = "ON" THEN "ON" ELSE "OFF (OCR: Error Screen)")
              ELSE "ON"
         ELSE "OFF (Capture Error)"

\* the classification at the head of AppGUI._process_result
DetailedStatus(s, data, look) ==
    IF data.probe_type = "ffprobe"
    THEN IF look.rc = 0 THEN "ON" ELSE "OFF (Probe Error)"
    ELSE IF /\ look.rc = 0
            /\ TaskKey(data.check_id, data.idx) \in s.temp_files
            /\ look.size >= MIN_FILE_SIZE_BYTES
         THEN IF data.check_type = "video" /\ s.use_ocr THEN look.ocr ELSE "ON"
         ELSE "OFF (Capture Error)"

\* if check_type == 'audio': stream_info['group'] = 'Radios'
Regroup(stream_info, check_type) ==
    IF check_type = "audio" THEN [stream_info EXCEPT !.group = "Radios"]
    ELSE stream_info

\* a faulty variant of the journaling: detailed_status == "ON" in place of
\* "ON" in detailed_status
JournalExactOn(s, idx, stream_info, detailed_status, check_type) ==
    LET counted == [s EXCEPT !.processed_count = @ + 1,
                             !.status[idx].detailed_status = detailed_status]
    IN  IF detailed_status = "ON"
        THEN LET info == Regroup(stream_info, check_type)
             IN  [counted EXCEPT
                    !.online_count = @ + 1,
                    !.status[idx].stream_info = info,
                    !.part_file = WriteEntry(s.journal_file, @, info)]
        ELSE IF IsUncheckable(stream_info.url)
             THEN [counted EXCEPT
                    !.uncheckable_disk = WriteEntry(s.uncheckable_file, @, stream_info),
                    !.uncheckable_count = @ + 1]
             ELSE counted

\* a faulty variant of the journaling: an online entry is written but
\* online_count is left as it is
JournalUncounted(s, idx, stream_info, detailed_status, check_type) ==
    LET counted == [s EXCEPT !.processed_count = @ + 1,
                             !.status[idx].detailed_status = detailed_status]
    IN  IF IsOn(detailed_status)
        THEN LET info == Regroup(stream_info, check_type)
             IN  [counted EXCEPT
                    !.status[idx].stream_info = info,
                    !.part_file = WriteEntry(s.journal_file, @, info)]
        ELSE IF IsUncheckable(stream_info.url)
             THEN [counted EXCEPT
                    !.uncheckable_disk = WriteEntry(s.uncheckable_file, @, stream_info),
                    !.uncheckable_count = @ + 1]
             ELSE counted

\* the journaling half of _process_result / _handle_cli_result
Journal(s, idx, stream_info, detailed_status, check_type) ==
    LET counted == [s EXCEPT !.processed_count = @ + 1,
                             !.status[idx].detailed_status = detailed_status]
    IN  IF IsOn(detailed_status)
        THEN LET info == Regroup(stream_info, check_type)
             IN  [counted EXCEPT
                    !.online_count = @ + 1,
                    !.status[idx].stream_info = info,
                    !.part_file = WriteEntry(s.journal_file, @, info)]
        ELSE IF IsUncheckable(stream_info.url)
             THEN [counted EXCEPT
                    !.uncheckable_disk = WriteEntry(s.uncheckable_file, @, stream_info),
                    !.uncheckable_count = @ + 1]
             ELSE counted

\* the except branch of _perform_ocr_check run without interruption: the
\* notice is logged unless OCR_FAILED_ONCE is set, and the flag is set
OcrNotice(s) ==
    IF s.OCR_FAILED_ONCE THEN s
    ELSE [s EXCEPT !.ocr_notices = @ + 1, !.OCR_FAILED_ONCE = TRUE]

\* AppGUI._process_result
ProcessResult(s, data, look) ==
    LET key == TaskKey(data.check_id, data.idx)
    IN  IF data.check_id # s.current_check_id
        THEN [s EXCEPT !.temp_files = @ \ {key}, !.stale_drops = @ + 1]
        ELSE LET detailed_status == DetailedStatus(s, data, look)
                 s1 == IF detailed_status = "ON (OCR Failed)" THEN OcrNotice(s) ELSE s
                 done == Journal(s1, data.idx, data.stream_info,
                                 detailed_status, data.check_type)
             IN  [done EXCEPT !.temp_files = @ \ {key}]

\* AppGUI._launch_worker: the thread is started; its body is ThreadBody
LaunchWorker(s, stream_info, idx, check_id) ==
    [s EXCEPT !.threads = @ \cup
        {[idx |-> idx, stream_info |-> stream_info, check_id |-> check_id]}]

\* the sweep over active_processes.items() in _monitor_workers; the pids
\* to remove are dropped as the sweep goes (nothing reads them before)
RECURSIVE Sweep(_, _, _, _)
Sweep(s, procs, obs, k) ==
    IF k > Len(procs) THEN s
    ELSE LET data == procs[k]
             look == obs[k]
         IN  IF look.rc # NoExit
             THEN Sweep(ProcessResult(s, data, look), procs, obs, k + 1)
             ELSE IF look.elapsed > WORKER_PROCESS_TIMEOUT_SECONDS
             THEN LET killed == ForceKillWorker(s, data)
                  IN  Sweep([killed EXCEPT !.callbacks = @ \cup
                               {FailureCallback(data.idx, data.stream_info,
                                                "(Timeout)", data.check_id)}],
                            procs, obs, k + 1)
             ELSE Sweep([s EXCEPT !.active_processes = Append(@, data)],
                        procs, obs, k + 1)

\* the admission step of _monitor_workers
Admit(s) ==
    IF Len(s.active_processes) < s.workers_var /\ s.streams_to_check # <<>>
    THEN LET idx == s.total_stream_count - Len(s.streams_to_check) + 1
         IN  LaunchWorker([s EXCEPT !.streams_to_check = Tail(@)],
                          Head(s.streams_to_check), idx, s.current_check_id)
    ELSE s

\* a faulty variant of _monitor_workers: no test for completion
MonitorWorkersNoEnd(s, obs) ==
    IF ~s.is_running THEN s
    ELSE LET swept == Sweep([s EXCEPT !.active_processes = <<>>],
                            s.active_processes, obs, 1)
         IN  [Admit(swept) EXCEPT !.ticks = @ + 1]

\* AppGUI._monitor_workers, entered from the timer or from _start_check_internal
MonitorWorkers(s, obs) ==
    IF ~s.is_running THEN s
    ELSE LET swept == Sweep([s EXCEPT !.active_processes = <<>>],
                            s.active_processes, obs, 1)
             admitted == Admit(swept)
         IN  IF admitted.streams_to_check = <<>> /\ admitted.active_processes = <<>>
             THEN StopProcessing([admitted EXCEPT !.end_kind = "complete"])
             ELSE [admitted EXCEPT !.ticks = @ + 1]

\* AppGUI._start_check_internal (the output path is set)
StartCheckInternal(s, all_streams, is_recheck, skip, obs) ==
    LET stamp == s.check_clock + 1
        known == IF skip /\ ~is_recheck /\ s.output_file.exists
                 THEN UrlsOf(ParseM3u(s.output_file.content)) ELSE {}
        s1 == [s EXCEPT !.is_running = TRUE, !.current_check_id = stamp,
                        !.check_clock = stamp, !.is_rechecking = is_recheck,
                        !.processed_count = 0, !.uncheckable_count = 0,
                        !.online_count = 0, !.end_kind = "running",
                        !.known_good_urls = known,
                        !.OCR_FAILED_ONCE = FALSE, !.ocr_notices = 0]
        todo == SkipKnown(all_streams, known)
    IN  IF todo = <<>>
        THEN StopProcessing([s1 EXCEPT !.streams_to_check = todo,
                                       !.end_kind = "nothing to check"])
        ELSE MonitorWorkers(
               [s1 EXCEPT
                  !.streams_to_check = todo,
                  !.journal_file = TRUE, !.uncheckable_file = TRUE,
                  !.part_file = WriteHeader(TRUE, File(<<>>)),
                  !.uncheckable_disk = WriteHeader(TRUE, File(<<>>)),
                  !.total_stream_count = Len(todo),
                  !.status = [i \in 1..Len(todo) |->
                                [stream_info |-> todo[i], detailed_status |-> ""]]],
               obs)

\* a faulty variant of run_in_thread: no return after the yt-dlp failure is
\* reported, the launch is requested as well
ThreadBodyBoth(s, t, outcome) ==
    LET s1 == [s EXCEPT !.threads = @ \ {t}]
    IN  IF t.check_id # s.current_check_id
        THEN [s1 EXCEPT !.stale_drops = @ + 1]
        ELSE IF outcome = "yt-dlp failed"
        THEN [s1 EXCEPT !.callbacks = @ \cup
                {FailureCallback(t.idx, t.stream_info, "(YouTube Error)", t.check_id),
                 ScheduleCallback(t.idx, t.stream_info, "video", t.check_id)}]
        ELSE IF outcome = "exception"
        THEN [s1 EXCEPT !.callbacks = @ \cup
                {FailureCallback(t.idx, t.stream_info, "(Launch Error)", t.check_id)}]
        ELSE [s1 EXCEPT !.callbacks = @ \cup
                {ScheduleCallback(t.idx, t.stream_info, outcome, t.check_id)}]

\* the body of run_in_thread in _launch_worker
ThreadBody(s, t, outcome) ==
    LET s1 == [s EXCEPT !.threads = @ \ {t}]
    IN  IF t.check_id # s.current_check_id
        THEN [s1 EXCEPT !.stale_drops = @ + 1]
        ELSE IF outcome = "yt-dlp failed"
        THEN [s1 EXCEPT !.callbacks = @ \cup
                {FailureCallback(t.idx, t.stream_info, "(YouTube Error)", t.check_id)}]
        ELSE IF outcome = "exception"
        THEN [s1 EXCEPT !.callbacks = @ \cup
                {FailureCallback(t.idx, t.stream_info, "(Launch Error)", t.check_id)}]
        ELSE [s1 EXCEPT !.callbacks = @ \cup
                {ScheduleCallback(t.idx, t.stream_info, outcome, t.check_id)}]

\* AppGUI._schedule_process; spawned is whether Popen (and the temp file
\* before it) succeeded
ScheduleProcess(s, stream_info, idx, check_type, check_id, spawned) ==
    IF check_id # s.current_check_id
    THEN [s EXCEPT !.stale_drops = @ + 1]
    ELSE LET use_ffmpeg == check_type = "video" /\ s.use_ocr
             data == [idx |-> idx, stream_info |-> stream_info,
                      temp_file |-> use_ffmpeg, check_type |-> check_type,
                      probe_type |-> IF use_ffmpeg THEN "ffmpeg" ELSE "ffprobe",
                      check_id |-> check_id]
         IN  IF spawned
             THEN [s EXCEPT
                     !.active_processes = Append(@, data),
                     !.temp_files = IF use_ffmpeg
                                    THEN @ \cup {TaskKey(check_id, idx)} ELSE @]
             ELSE [s EXCEPT !.callbacks = @ \cup
                     {FailureCallback(idx, stream_info, "(Schedule Error)", check_id)}]

(***************************************************************************)
(* AppCLI handlers.                                                        *)
(***************************************************************************)

\* AppCLI._handle_cli_failure
HandleCliFailure(s, idx, reason) ==
    [s EXCEPT !.processed_count = @ + 1,
              !.status[idx].detailed_status = reason]

\* the classification in AppCLI._execute_check once communicate() returned
CliDetailedStatus(s, key, use_ffmpeg, look) ==
    IF look.rc = 0
    THEN IF use_ffmpeg /\ key \in s.temp_files /\ look.size >= MIN_FILE_SIZE_BYTES
         THEN look.ocr
         ELSE IF ~use_ffmpeg THEN "ON" ELSE "OFF"
    ELSE "OFF"

\* proc.kill() in _execute_check: SIGKILL to the direct child alone; the
\* process group it leads is not signalled
ProcKill(s) ==
    [s EXCEPT !.child_only_kills = @ + 1]

\* AppCLI._finalize_check
FinalizeCheck(s, is_recheck) ==
    Promote([s EXCEPT !.journal_file = FALSE, !.uncheckable_file = FALSE], is_recheck)

\* AppCLI.run up to the start of the worker threads (the input is loaded)
CliRun(s, all_streams, is_recheck, no_skip) ==
    LET known == IF ~is_recheck /\ ~no_skip /\ s.output_file.exists
                 THEN UrlsOf(ParseM3u(s.output_file.content)) ELSE {}
        todo == SkipKnown(all_streams, known)
        stamp == s.check_clock + 1
    IN  IF all_streams = <<>> \/ todo = <<>>
        THEN [s EXCEPT !.streams_to_check = IF all_streams = <<>> THEN @ ELSE todo,
                       !.known_good_urls = IF all_streams = <<>> THEN @ ELSE known,
                       !.cli_main = "done", !.end_kind = "nothing to check"]
        ELSE [s EXCEPT
                !.streams_to_check = todo,
                !.known_good_urls = known,
                !.is_rechecking = is_recheck,
                !.journal_file = TRUE, !.uncheckable_file = TRUE,
                !.part_file = WriteHeader(TRUE, File(<<>>)),
                !.uncheckable_disk = WriteHeader(TRUE, File(<<>>)),
                !.total_stream_count = Len(todo),
                !.status = [i \in 1..Len(todo) |->
                              [stream_info |-> todo[i], detailed_status |-> ""]],
                !.is_running = TRUE, !.current_check_id = stamp,
                !.check_clock = stamp, !.end_kind = "running",
                !.workers = [w \in 1..s.workers_var |->
                               [pc |-> "while", idx |-> 0, check_type |-> "-",
                                use_ffmpeg |-> FALSE]],
                !.cli_main = "wait"]

\* AppCLI._signal_handler
SignalHandler(s) ==
    IF s.is_running THEN [s EXCEPT !.is_running = FALSE, !.end_kind = "cancelled"]
    ELSE s

\* AppCLI._worker: the test of "while self.is_running"
WorkerWhile(s, w) ==
    [s EXCEPT !.workers[w].pc = IF s.is_running THEN "pop" ELSE "exited"]

\* a faulty variant of the pop: queue.pop() in place of queue.pop(0)
WorkerPopLast(s, w) ==
    IF s.streams_to_check = <<>>
    THEN [s EXCEPT !.workers[w].pc = "exited"]
    ELSE [s EXCEPT !.streams_to_check = SubSeq(@, 1, Len(@) - 1),
                   !.workers[w].idx = s.total_stream_count,
                   !.workers[w].pc = "check"]

\* AppCLI._worker: "with self.lock: if not queue: break; queue.pop(0)"
WorkerPop(s, w) ==
    IF s.streams_to_check = <<>>
    THEN [s EXCEPT !.workers[w].pc = "exited"]
    ELSE [s EXCEPT !.streams_to_check = Tail(@),
                   !.workers[w].idx = s.total_stream_count - Len(s.streams_to_check) + 1,
                   !.workers[w].pc = "check"]

\* a faulty variant of the test after the pop: the popped record is
\* checked although the session was cancelled
WorkerCheckRegardless(s, w) ==
    [s EXCEPT !.workers[w].pc = "prepare"]

\* AppCLI._worker: "if not self.is_running: break"
WorkerCheck(s, w) ==
    [s EXCEPT !.workers[w].pc = IF s.is_running THEN "prepare" ELSE "exited"]

\* AppCLI._prepare_stream, then _execute_check up to Popen
WorkerPrepare(s, w, outcome, spawned) ==
    LET idx == s.workers[w].idx
        stream_info == s.status[idx].stream_info
    IN  IF outcome \in {"yt-dlp failed", "exception"}
        THEN [HandleCliFailure(s, idx, "(Prepare Error)") EXCEPT !.workers[w].pc = "while"]
        ELSE LET use_ffmpeg == outcome = "video" /\ s.use_ocr
             IN  IF spawned
                 THEN [s EXCEPT
                         !.workers[w].check_type = outcome,
                         !.workers[w].use_ffmpeg = use_ffmpeg,
                         !.workers[w].pc = "communicate",
                         !.temp_files = IF use_ffmpeg
                                        THEN @ \cup {TaskKey(s.current_check_id, idx)}
                                        ELSE @]
                 ELSE [Journal(s, idx, stream_info, "OFF (Execution Error)", outcome)
                         EXCEPT !.workers[w].pc = "while"]

\* AppCLI._execute_check from proc.communicate(timeout=...) to the end
WorkerCommunicate(s, w, look) ==
    LET me == s.workers[w]
        key == TaskKey(s.current_check_id, me.idx)
        stream_info == s.status[me.idx].stream_info
        timed_out == look.rc = NoExit
        s1 == IF timed_out THEN ProcKill(s) ELSE s
        detailed_status == IF timed_out THEN "OFF (Timeout)"
                           ELSE CliDetailedStatus(s, key, me.use_ffmpeg, look)
        s2 == [(IF detailed_status = "ON (OCR Failed)" THEN OcrNotice(s1) ELSE s1)
                 EXCEPT !.temp_files = @ \ {key}]
    IN  [Journal(s2, me.idx, stream_info, detailed_status, me.check_type)
           EXCEPT !.workers[w].pc = "while"]

\* AppCLI.run once no worker thread is alive
CliFinish(s) ==
    LET s1 == [s EXCEPT !.is_running = FALSE, !.cli_main = "done",
                        !.end_kind = IF @ = "cancelled" THEN @ ELSE "complete"]
    IN  FinalizeCheck(s1, s.is_rechecking)

(***************************************************************************)
(* The state machine.                                                      *)
(***************************************************************************)
Playlists == SeqsUpTo(StreamUniverse, MaxStreams)

RECURSIVE EntryLines(_)
EntryLines(streams) ==
    IF streams = <<>> THEN <<>>
    ELSE <<EntryLine(Head(streams))>> \o EntryLines(Tail(streams))

\* the output file found at startup: none, an empty one, or one this
\* program wrote earlier
InitialOutputs ==
    {NoFile, File(<<>>),
     File(<<HeaderLine, EntryLine([title |-> "A", url |-> UrlPlain, group |-> "News"])>>)}

\* default=5 of the -t / --timeout argument
DefaultTimeout == 5

\* the keys of essential_deps in check_dependencies
EssentialNames == {"ffmpeg", "ffprobe", "yt-dlp"}

\* a faulty variant of check_dependencies: yt-dlp is not looked at
CheckDependenciesNoYtDlp(deps) ==
    { name \in EssentialNames \ {"yt-dlp"} : ~deps[name] }

\* check_dependencies: missing_essential
CheckDependencies(deps) ==
    { name \in EssentialNames : ~deps[name] }

Init ==
    /\ frontend \in {"gui", "cli"}
    /\ is_running = FALSE
    /\ current_check_id = None
    /\ is_rechecking = FALSE
    /\ streams_to_check = <<>>
    /\ known_good_urls = {}
    /\ active_processes = <<>>
    /\ processed_count = 0
    /\ online_count = 0
    /\ uncheckable_count = 0
    /\ total_stream_count = 0
    /\ journal_file = FALSE
    /\ uncheckable_file = FALSE
    /\ part_file = NoFile
    /\ output_file \in InitialOutputs
    /\ uncheckable_disk = NoFile
    /\ temp_files = {}
    /\ use_ocr \in BOOLEAN
    /\ workers_var \in 1..MaxWorkers
    /\ threads = {}
    /\ callbacks = {}
    /\ ticks = 0
    /\ workers = <<>>
    /\ cli_main = "start"
    /\ status = <<>>
    /\ end_kind = "never ran"
    /\ stale_drops = 0
    /\ child_only_kills = 0
    /\ check_clock = 0
    /\ lock = [owner |-> None, count |-> 0]
    /\ retiring = {}
    /\ essential_deps = [name \in EssentialNames |-> TRUE]
    /\ timeout_var = DefaultTimeout
    /\ OCR_FAILED_ONCE = FALSE
    /\ ocr_notices = 0
    /\ loads = {}

\* GUI: "Start" with a playlist that loads: start_processing, do_start_check
\* and the deferred _start_check_internal
StartFresh ==
    /\ frontend = "gui" /\ ~is_running /\ check_clock = 0
    /\ \E all_streams \in Playlists, skip \in BOOLEAN :
         Becomes(StartCheckInternal(State, all_streams, FALSE, skip,
                                    [k \in 1..Len(active_processes) |-> Running(1)]))

\* GUI: "Recheck output file": the input is the output file itself
StartRecheck ==
    /\ frontend = "gui" /\ ~is_running /\ check_clock = 0
    /\ output_file.exists
    /\ Becomes(StartCheckInternal(State, ParseM3u(output_file.content), TRUE, FALSE,
                                  [k \in 1..Len(active_processes) |-> Running(1)]))

\* GUI: a further deferred _start_check_internal lands.  start_processing
\* tests is_running, which stays False until _start_check_internal runs, and
\* _periodic_internet_check re-enables the Start button while not
\* is_running: a start requested during a load lands on a running session,
\* one requested after a stop on the leftovers of the ended one
Restart ==
    /\ frontend = "gui" /\ check_clock \in 1..MaxRestarts
    /\ \E all_streams \in Playlists, obs \in LooksAt(active_processes) :
         Becomes(StartCheckInternal(State, all_streams, FALSE, FALSE, obs))

\* GUI: "Start" with a playlist one record longer than Playlists holds
StartLong ==
    /\ frontend = "gui" /\ ~is_running /\ check_clock = 0
    /\ \E all_streams \in SeqsUpTo(StreamUniverse, MaxStreams + 1) \ Playlists :
         Becomes(StartCheckInternal(State, all_streams, FALSE, FALSE,
                                    [k \in 1..Len(active_processes) |-> Running(1)]))

\* GUI: a preparation thread runs
Thread ==
    /\ frontend = "gui"
    /\ \E t \in threads : \E outcome \in PrepareOutcomes(t.stream_info) :
         Becomes(ThreadBody(State, t, outcome))

\* GUI: the main loop delivers an after(0, ...) callback
Deliver ==
    /\ frontend = "gui"
    /\ \E m \in callbacks :
         LET s == [State EXCEPT !.callbacks = @ \ {m}]
         IN  IF m.kind = "_schedule_process"
             THEN \E spawned \in BOOLEAN :
                    Becomes(ScheduleProcess(s, m.stream_info, m.idx, m.check_type,
                                            m.check_id, spawned))
             ELSE Becomes(HandleWorkerFailure(s, m.stream_info, m.idx, m.reason,
                                              m.check_id))

\* GUI: the after(100, _monitor_workers) timer fires
Tick ==
    /\ frontend = "gui" /\ ticks > 0
    /\ \E obs \in LooksAt(active_processes) :
         Becomes(MonitorWorkers([State EXCEPT !.ticks = @ - 1], obs))

\* GUI: the user presses "Stop"
UserStop ==
    /\ frontend = "gui" /\ is_running
    /\ Becomes(StopProcessing([State EXCEPT !.end_kind = "cancelled"]))

\* CLI: run() loads its input and starts the pool
CliStart ==
    /\ frontend = "cli" /\ cli_main = "start"
    /\ \E is_recheck \in BOOLEAN, no_skip \in BOOLEAN :
         IF is_recheck
         THEN /\ output_file.exists
              /\ Becomes(CliRun(State, ParseM3u(output_file.content), TRUE, no_skip))
         ELSE \E all_streams \in Playlists :
                Becomes(CliRun(State, all_streams, FALSE, no_skip))

\* CLI: Ctrl+C while run() waits for the pool
Sigint ==
    /\ frontend = "cli" /\ cli_main = "wait" /\ is_running
    /\ Becomes(SignalHandler(State))

\* CLI: one step of one worker thread
Worker ==
    /\ frontend = "cli" /\ cli_main = "wait"
    /\ \E w \in DOMAIN workers :
         CASE workers[w].pc = "while" -> Becomes(WorkerWhile(State, w))
           [] workers[w].pc = "pop" -> Becomes(WorkerPop(State, w))
           [] workers[w].pc = "check" -> Becomes(WorkerCheck(State, w))
           [] workers[w].pc = "prepare" ->
                \E outcome \in PrepareOutcomes(status[workers[w].idx].stream_info),
                   spawned \in BOOLEAN :
                     Becomes(WorkerPrepare(State, w, outcome, spawned))
           [] workers[w].pc = "communicate" ->
                \E look \in Looks(IF workers[w].use_ffmpeg THEN "ffmpeg" ELSE "ffprobe") :
                     /\ look.rc = NoExit => look.elapsed > WORKER_PROCESS_TIMEOUT_SECONDS
                     /\ Becomes(WorkerCommunicate(State, w, look))
           [] OTHER -> FALSE

\* CLI: every worker thread has ended; run() finalizes
CliEnd ==
    /\ frontend = "cli" /\ cli_main = "wait"
    /\ \A w \in DOMAIN workers : workers[w].pc = "exited"
    /\ Becomes(CliFinish(State))

NextGUI ==
    \/ StartFresh
    \/ StartRecheck
    \/ Thread
    \/ Deliver
    \/ Tick
    \/ UserStop

NextCLI ==
    \/ CliStart
    \/ Sigint
    \/ Worker
    \/ CliEnd

Next == NextGUI \/ NextCLI

Spec == Init /\ [][Next]_vars

\* the application started with --gui: its first session
InitGUI == Init /\ frontend = "gui"
SpecGUI == InitGUI /\ [][NextGUI]_vars

\* the application started in CLI mode
InitCLI == Init /\ frontend = "cli"
SpecCLI == InitCLI /\ [][NextCLI]_vars

\* the GUI on long playlists, without an output file and without OCR
InitPool == InitGUI /\ output_file = NoFile /\ ~use_ocr
NextPool ==
    \/ StartLong
    \/ Thread
    \/ Deliver
    \/ Tick
    \/ UserStop
SpecPool == InitPool /\ [][NextPool]_vars

\* the GUI on the playlist <<RecordA, RecordB, RecordC>> with two workers,
\* no OCR and no output file: every preparation and every launch succeeds,
\* RecordA's probe exits 0, RecordB's never exits, RecordC's exits 1
RecordA == [title |-> "A", url |-> UrlPlain, group |-> "News"]
RecordB == [title |-> "B", url |-> UrlSecond, group |-> "News"]
RecordC == [title |-> "C", url |-> UrlThird, group |-> "News"]

ScenarioLooks(data) ==
    CASE data.stream_info.url = UrlPlain ->
           {Running(WORKER_PROCESS_TIMEOUT_SECONDS), Exited(0, 0, "ON")}
      [] data.stream_info.url = UrlSecond ->
           {Running(WORKER_PROCESS_TIMEOUT_SECONDS),
            Running(WORKER_PROCESS_TIMEOUT_SECONDS + 1)}
      [] OTHER ->
           {Running(WORKER_PROCESS_TIMEOUT_SECONDS), Exited(1, 0, "ON")}

ScenarioLooksAt(active) ==
    { obs \in [1..Len(active) -> AllLooks] :
        \A k \in 1..Len(active) : obs[k] \in ScenarioLooks(active[k]) }

ScenarioStart ==
    /\ frontend = "gui" /\ ~is_running /\ check_clock = 0
    /\ Becomes(StartCheckInternal(State, <<RecordA, RecordB, RecordC>>, FALSE, FALSE,
                                  [k \in 1..Len(active_processes) |-> Running(1)]))

ScenarioThread ==
    /\ frontend = "gui"
    /\ \E t \in threads : Becomes(ThreadBody(State, t, "video"))

ScenarioDeliver ==
    /\ frontend = "gui"
    /\ \E m \in callbacks :
         LET s == [State EXCEPT !.callbacks = @ \ {m}]
         IN  IF m.kind = "_schedule_process"
             THEN Becomes(ScheduleProcess(s, m.stream_info, m.idx, m.check_type,
                                          m.check_id, TRUE))
             ELSE Becomes(HandleWorkerFailure(s, m.stream_info, m.idx, m.reason,
                                              m.check_id))

ScenarioTick ==
    /\ frontend = "gui" /\ ticks > 0
    /\ \E obs \in ScenarioLooksAt(active_processes) :
         Becomes(MonitorWorkers([State EXCEPT !.ticks = @ - 1], obs))

InitScenario == InitGUI /\ output_file = NoFile /\ ~use_ocr /\ workers_var = 2
NextScenario ==
    \/ ScenarioStart
    \/ ScenarioThread
    \/ ScenarioDeliver
    \/ ScenarioTick
SpecScenario == InitScenario /\ [][NextScenario]_vars

\* the GUI with further sessions, with OCR and without an output file
InitRestart ==
    InitGUI /\ output_file = NoFile /\ use_ocr /\ workers_var = MaxWorkers
NextRestart ==
    \/ StartFresh
    \/ Restart
    \/ Thread
    \/ Deliver
    \/ Tick
    \/ UserStop
SpecRestart == InitRestart /\ [][NextRestart]_vars

\* both front ends with OCR, the GUI with further sessions: every path on
\* which a capture artifact is created and removed
InitTemp == Init /\ output_file = NoFile /\ use_ocr /\ workers_var = MaxWorkers
NextTemp ==
    \/ NextRestart
    \/ NextCLI
SpecTemp == InitTemp /\ [][NextTemp]_vars

(***************************************************************************)
(* The CLI pool with the steps of a retirement apart: the worker thread    *)
(* takes self.lock, reads the counters, writes them and the files, and     *)
(* leaves the lock.  "x += 1" is a read and a write of the attribute.      *)
(***************************************************************************)

\* a faulty variant of the lock: an acquire never waits
CanAcquireAlways(s, w) == TRUE

\* "with self.lock:" entered by worker thread w: the RLock is free or its own
CanAcquire(s, w) == s.lock.owner \in {None, w}

Acquire(s, w) == [s EXCEPT !.lock = [owner |-> w, count |-> @.count + 1]]

Release(s) ==
    [s EXCEPT !.lock = IF @.count = 1 THEN [owner |-> None, count |-> 0]
                       ELSE [owner |-> @.owner, count |-> @.count - 1]]

\* AppCLI.log called inside a handler: "with self.lock: print(...)"
CliLog(s, w) == Release(Acquire(s, w))

\* the call of a handler that worker w is about to make
Retirement(w, handler, detailed_status) ==
    [w |-> w, handler |-> handler, detailed_status |-> detailed_status,
     seen |-> [processed_count |-> 0, online_count |-> 0, uncheckable_count |-> 0]]

RetirementOf(s, w) == CHOOSE r \in s.retiring : r.w = w

\* AppCLI._prepare_stream, then _execute_check up to Popen; a failure goes
\* to _handle_cli_failure / _handle_cli_result
PrepareStream(s, w, outcome, spawned) ==
    LET idx == s.workers[w].idx
    IN  IF outcome \in {"yt-dlp failed", "exception"}
        THEN [s EXCEPT
                !.retiring = @ \cup {Retirement(w, "_handle_cli_failure", "(Prepare Error)")},
                !.workers[w].pc = "acquire"]
        ELSE IF spawned
        THEN WorkerPrepare(s, w, outcome, TRUE)
        ELSE [s EXCEPT
                !.workers[w].check_type = outcome,
                !.retiring = @ \cup {Retirement(w, "_handle_cli_result",
                                                "OFF (Execution Error)")},
                !.workers[w].pc = "acquire"]

\* AppCLI._execute_check from proc.communicate(timeout=...) up to the call of
\* _handle_cli_result
ExecuteCheck(s, w, look) ==
    LET me == s.workers[w]
        key == TaskKey(s.current_check_id, me.idx)
        timed_out == look.rc = NoExit
        s1 == IF timed_out THEN ProcKill(s) ELSE s
        detailed_status == IF timed_out THEN "OFF (Timeout)"
                           ELSE CliDetailedStatus(s, key, me.use_ffmpeg, look)
    IN  [(IF detailed_status = "ON (OCR Failed)" THEN OcrNotice(s1) ELSE s1) EXCEPT
           !.temp_files = @ \ {key},
           !.retiring = @ \cup {Retirement(w, "_handle_cli_result", detailed_status)},
           !.workers[w].pc = "acquire"]

\* "with self.lock:" at the head of a handler
HandlerAcquire(s, w) == [Acquire(s, w) EXCEPT !.workers[w].pc = "read"]

\* the reads of "self.processed_count += 1" and of the other counters
HandlerRead(s, w) ==
    LET r == RetirementOf(s, w)
    IN  [s EXCEPT
           !.retiring = (@ \ {r}) \cup
               {[r EXCEPT !.seen = [processed_count |-> s.processed_count,
                                    online_count |-> s.online_count,
                                    uncheckable_count |-> s.uncheckable_count]]},
           !.workers[w].pc = "write"]

\* the writes of the handler, its log line, and the end of the with block
HandlerWrite(s, w) ==
    LET r == RetirementOf(s, w)
        me == s.workers[w]
        base == [s EXCEPT !.processed_count = r.seen.processed_count,
                          !.online_count = r.seen.online_count,
                          !.uncheckable_count = r.seen.uncheckable_count,
                          !.retiring = @ \ {r},
                          !.workers[w].pc = "while"]
        done == IF r.handler = "_handle_cli_failure"
                THEN HandleCliFailure(base, me.idx, r.detailed_status)
                ELSE Journal(base, me.idx, s.status[me.idx].stream_info,
                             r.detailed_status, me.check_type)
    IN  Release(CliLog(done, w))

\* CLI: one step of one worker thread
LockedWorker ==
    /\ frontend = "cli" /\ cli_main = "wait"
    /\ \E w \in DOMAIN workers :
         CASE workers[w].pc = "while" -> Becomes(WorkerWhile(State, w))
           [] workers[w].pc = "pop" ->
                CanAcquire(State, w) /\ Becomes(WorkerPop(State, w))
           [] workers[w].pc = "check" -> Becomes(WorkerCheck(State, w))
           [] workers[w].pc = "prepare" ->
                \E outcome \in PrepareOutcomes(status[workers[w].idx].stream_info),
                   spawned \in BOOLEAN :
                     Becomes(PrepareStream(State, w, outcome, spawned))
           [] workers[w].pc = "communicate" ->
                \E look \in Looks(IF workers[w].use_ffmpeg THEN "ffmpeg" ELSE "ffprobe") :
                     /\ look.rc = NoExit => look.elapsed > WORKER_PROCESS_TIMEOUT_SECONDS
                     /\ Becomes(ExecuteCheck(State, w, look))
           [] workers[w].pc = "acquire" ->
                CanAcquire(State, w) /\ Becomes(HandlerAcquire(State, w))
           [] workers[w].pc = "read" -> Becomes(HandlerRead(State, w))
           [] workers[w].pc = "write" -> Becomes(HandlerWrite(State, w))
           [] OTHER -> FALSE

InitLock == InitCLI /\ workers_var = MaxWorkers /\ output_file = NoFile
NextLock ==
    \/ CliStart
    \/ Sigint
    \/ LockedWorker
    \/ CliEnd
SpecLock == InitLock /\ [][NextLock]_vars

(***************************************************************************)
(* Both front ends under fair scheduling.  Time passes: the timer callback *)
(* of the GUI comes to run when every registered probe has exited or is    *)
(* past the ceiling; a CLI worker thread that can take a step takes one    *)
(* (proc.communicate returns or times out); run() notices that no worker   *)
(* thread is alive.                                                        *)
(***************************************************************************)
Decisive(look) ==
    look.rc # NoExit \/ look.elapsed > WORKER_PROCESS_TIMEOUT_SECONDS

\* GUI: a timer callback that finds no probe still running within the ceiling
DecisiveTick ==
    /\ frontend = "gui" /\ ticks > 0
    /\ \E obs \in LooksAt(active_processes) :
         /\ \A k \in 1..Len(active_processes) : Decisive(obs[k])
         /\ \E r \in {MonitorWorkers([State EXCEPT !.ticks = @ - 1], obs)} :
              Becomes(r)

Fairness ==
    /\ WF_vars(DecisiveTick)
    /\ WF_vars(Worker)
    /\ WF_vars(CliEnd)

InitLive == Init /\ output_file \notin {NoFile, File(<<>>)} /\ workers_var = MaxWorkers
SpecLive == InitLive /\ [][Next]_vars /\ Fairness

(***************************************************************************)
(* Properties.                                                             *)
(***************************************************************************)

\* every entry block a session can write
EntryUniverse ==
    { EntryLine(Regroup(r, t)) : r \in StreamUniverse, t \in {"video", "audio"} }

\* the session is over: "Check Complete" or a stop, and the files are moved
SessionEnded ==
    /\ end_kind \in {"complete", "cancelled"}
    /\ ~is_running
    /\ frontend = "cli" => cli_main = "done"

\* the step in which stop_processing ends a GUI session
GuiEnds ==
    /\ frontend = "gui"
    /\ end_kind \notin {"complete", "cancelled"}
    /\ end_kind' \in {"complete", "cancelled"}

\* the step in which _finalize_check ends a CLI session
CliFinalizes ==
    /\ frontend = "cli"
    /\ cli_main = "wait"
    /\ cli_main' = "done"

\* the retired tasks of st classified online / offline with entry block e
OnlineClassified(st, e) ==
    Cardinality({ i \in DOMAIN st : /\ IsOn(st[i].detailed_status)
                                    /\ EntryLine(st[i].stream_info) = e })

OfflineClassified(st, e) ==
    Cardinality({ i \in DOMAIN st : /\ st[i].detailed_status # ""
                                    /\ ~IsOn(st[i].detailed_status)
                                    /\ EntryLine(st[i].stream_info) = e })

PrefixOf(a, b) == Len(a) <= Len(b) /\ SubSeq(b, 1, Len(a)) = a

\* C1: in the GUI the number of probe processes registered in
\* active_processes never exceeds the worker count chosen by the user.
C1_ActiveWithinMaxWorkers ==
    Len(active_processes) <= workers_var

\* C2: when a session is declared complete, processed_count equals the number
\* of records admitted (total_stream_count), and processed_count never exceeds
\* total_stream_count.
C2_ProcessedAtCompletion ==
    /\ end_kind = "complete" => processed_count = total_stream_count
    /\ processed_count <= total_stream_count

C5_TimeoutCounted ==
    end_kind # "cancelled" =>
        \A m \in callbacks : m.reason = "(Timeout)" => m.check_id = current_check_id

\* C6: every kill of a timed-out probe is delivered to its whole process
\* group, never to the direct child alone.
C6_WholeGroupKilled ==
    child_only_kills = 0

C8_OfflineFlaggedJournaled ==
    \A i \in DOMAIN status :
        (/\ status[i].detailed_status # ""
         /\ ~IsOn(status[i].detailed_status)
         /\ IsUncheckable(status[i].stream_info.url))
        => Count(uncheckable_disk.content, EntryLine(status[i].stream_info))
             = OfflineClassified(status, EntryLine(status[i].stream_info))

\* C9: the staging file only grows while the session lasts, every entry in
\* it when a cancelled session ends is in the output file afterwards, and
\* the output file is not touched after the end.
C9_FlushedEntriesKept ==
    [][/\ (\/ GuiEnds /\ end_kind' = "cancelled"
           \/ CliFinalizes /\ end_kind = "cancelled")
          => \A e \in EntryUniverse :
               Count(output_file'.content, e) >= Count(part_file.content, e)
       /\ (part_file.exists /\ part_file'.exists)
          => PrefixOf(part_file.content, part_file'.content)
       /\ SessionEnded => output_file' = output_file]_vars

C9_Witness ==
    /\ SessionEnded
    /\ end_kind = "cancelled"
    /\ processed_count < total_stream_count
    /\ \E i \in DOMAIN status :
         /\ IsOn(status[i].detailed_status)
         /\ Count(output_file.content, EntryLine(status[i].stream_info)) >= 1

\* what a dropped callback must leave alone: r is the state after, s before
Undisturbed(r, s) ==
    /\ r.processed_count = s.processed_count
    /\ r.online_count = s.online_count
    /\ r.uncheckable_count = s.uncheckable_count
    /\ r.part_file = s.part_file
    /\ r.uncheckable_disk = s.uncheckable_disk
    /\ r.output_file = s.output_file
    /\ r.active_processes = s.active_processes
    /\ r.streams_to_check = s.streams_to_check
    /\ r.threads = s.threads
    /\ r.callbacks = s.callbacks
    /\ r.status = s.status
    /\ r.is_running = s.is_running
    /\ r.current_check_id = s.current_check_id

\* C10: in every reachable state, a pending _schedule_process or
\* _handle_worker_failure callback, a preparation thread and an exited probe
\* whose check id is not the current one are dropped when they come up: the
\* counters, the files, active_processes and the pending work stay as they
\* are, no process is launched, and only the capture artifact of a stale
\* probe is removed.
C10_StaleDropped ==
    /\ \A m \in callbacks :
         m.check_id # current_check_id =>
           LET s == [State EXCEPT !.callbacks = @ \ {m}]
           IN  IF m.kind = "_schedule_process"
               THEN \A spawned \in BOOLEAN :
                      LET r == ScheduleProcess(s, m.stream_info, m.idx, m.check_type,
                                               m.check_id, spawned)
                      IN  Undisturbed(r, s) /\ r.temp_files = s.temp_files
               ELSE LET r == HandleWorkerFailure(s, m.stream_info, m.idx, m.reason,
                                                 m.check_id)
                    IN  Undisturbed(r, s) /\ r.temp_files = s.temp_files
    /\ \A t \in threads :
         t.check_id # current_check_id =>
           \A outcome \in PrepareOutcomes(t.stream_info) :
             LET s == [State EXCEPT !.threads = @ \ {t}]
                 r == ThreadBody(State, t, outcome)
             IN  Undisturbed(r, s) /\ r.temp_files = s.temp_files
    /\ \A k \in 1..Len(active_processes) :
         active_processes[k].check_id # current_check_id =>
           \A look \in Looks(active_processes[k].probe_type) :
             LET data == active_processes[k]
                 r == ProcessResult(State, data, look)
             IN  /\ Undisturbed(r, State)
                 /\ r.temp_files = temp_files \ {TaskKey(data.check_id, data.idx)}

C10_Witness ==
    /\ is_running
    /\ check_clock > 1
    /\ stale_drops > 0
    /\ \E k \in 1..Len(active_processes) :
         active_processes[k].check_id # current_check_id

\* the tasks of the running session: the record of each preparation thread,
\* pending callback, registered probe and busy CLI worker
TaskUrls ==
    { t.stream_info.url : t \in { x \in threads : x.check_id = current_check_id } }
    \cup { m.stream_info.url : m \in { x \in callbacks : x.check_id = current_check_id } }
    \cup { active_processes[k].stream_info.url :
             k \in { j \in 1..Len(active_processes) :
                       active_processes[j].check_id = current_check_id } }
    \cup { status[workers[w].idx].stream_info.url :
             w \in { v \in DOMAIN workers :
                       workers[v].pc \in {"check", "prepare", "communicate"} } }

\* C11: the known-good set of a session is empty or the URLs parsed from the
\* output file found at its start (empty in a recheck); no record with such a
\* URL is on the list of the session, becomes a task, or is counted in
\* total_stream_count or processed_count.
C11_KnownGoodSkipped ==
    [][/\ check_clock' # check_clock
          => /\ known_good_urls' \in {{}, UrlsOf(ParseM3u(output_file.content))}
             /\ is_rechecking' => known_good_urls' = {}
             /\ ~output_file.exists => known_good_urls' = {}
       /\ \A i \in DOMAIN status' : status'[i].stream_info.url \notin known_good_urls'
       /\ \A i \in 1..Len(streams_to_check') :
             streams_to_check'[i].url \notin known_good_urls'
       /\ TaskUrls' \cap known_good_urls' = {}
       /\ total_stream_count' = Len(status')
       /\ processed_count' <= total_stream_count']_vars

C11_Witness ==
    /\ known_good_urls # {}
    /\ total_stream_count > 0
    /\ processed_count = total_stream_count

\* C12: the pending queue is always the tail of the session's list that is
\* not admitted yet; within a session the queue changes only by losing its
\* head, and the record that leaves is the one the new task holds: the k-th
\* task admitted (a GUI preparation thread, a CLI worker's item) holds the
\* k-th record of the list.
C12_FifoAdmission ==
    [][/\ Len(streams_to_check') <= Len(status')
       /\ \A j \in 1..Len(streams_to_check') :
             streams_to_check'[j]
               = status'[Len(status') - Len(streams_to_check') + j].stream_info
       /\ (check_clock' = check_clock /\ streams_to_check' # streams_to_check)
          => /\ streams_to_check # <<>>
             /\ streams_to_check' = Tail(streams_to_check)
             /\ LET k == Len(status) - Len(streams_to_check) + 1
                IN  IF frontend = "gui"
                    THEN \E t \in threads' \ threads :
                           /\ t.idx = k
                           /\ t.stream_info = Head(streams_to_check)
                           /\ t.check_id = current_check_id
                    ELSE \E w \in DOMAIN workers :
                           /\ workers[w].pc = "pop"
                           /\ workers'[w].pc = "check"
                           /\ workers'[w].idx = k
                           /\ status[k].stream_info = Head(streams_to_check)
       /\ (check_clock' # check_clock /\ frontend = "gui" /\ status' # <<>>)
          => \E t \in threads' :
               /\ t.idx = 1
               /\ t.stream_info = status'[1].stream_info
               /\ Len(streams_to_check') = Len(status') - 1]_vars

C12_Witness ==
    /\ streams_to_check = <<>>
    /\ Len(status) = 2
    /\ status[1].stream_info.url # status[2].stream_info.url
    /\ processed_count = 2

\* C13: on <<RecordA, RecordB, RecordC>> with two workers, an execution that
\* ended as complete (no preparation thread, callback or probe is left) has
\* processed_count = 3 and online_count = 1, the output file holds exactly
\* RecordA and the uncheckable file holds no entry.
C13_ScenarioOutcome ==
    (/\ end_kind = "complete"
     /\ threads = {}
     /\ callbacks = {}
     /\ active_processes = <<>>)
    => /\ processed_count = 3
       /\ online_count = 1
       /\ Entries(output_file.content) = <<EntryLine(RecordA)>>
       /\ Entries(uncheckable_disk.content) = <<>>

\* C14: when a recheck session ends with no entry classified online, the
\* output file is deleted and no staging file remains.
C14_RecheckAllOffline ==
    [][((GuiEnds \/ CliFinalizes) /\ is_rechecking' /\ online_count' = 0)
       => (~output_file'.exists /\ ~part_file'.exists)]_vars

C14_Witness ==
    /\ SessionEnded
    /\ end_kind = "complete"
    /\ is_rechecking
    /\ total_stream_count >= 1
    /\ processed_count = total_stream_count
    /\ \A i \in DOMAIN status :
         status[i].detailed_status # "" /\ ~IsOn(status[i].detailed_status)
    /\ ~output_file.exists
    /\ ~part_file.exists

\* the lines of content after its first n lines
After(content, n) == SubSeq(content, n + 1, Len(content))

\* staged is what a session leaves in its staging file, header aside: no
\* header, the entries journaled before this step first, and one entry for
\* every task classified online
StagedEntries(staged) ==
    /\ Count(staged, HeaderLine) = 0
    /\ PrefixOf(Entries(part_file.content), staged)
    /\ \A i \in 1..Len(staged) : staged[i] \in EntryUniverse
    /\ \A e \in EntryUniverse : Count(staged, e) = OnlineClassified(status', e)

\* C15: when a fresh session ends with at least one staged entry, the output
\* file holds its lines of before the session in their order, then a header
\* if it was absent or empty, then the staged entries without the staging
\* file's header; it holds exactly one header.
C15_FreshAppends ==
    [][((GuiEnds \/ CliFinalizes) /\ ~is_rechecking' /\ online_count' > 0)
       => LET before == output_file.content
                          \o (IF ~output_file.exists \/ output_file.content = <<>>
                              THEN <<HeaderLine>> ELSE <<>>)
          IN  /\ output_file'.exists
              /\ PrefixOf(before, output_file'.content)
              /\ StagedEntries(After(output_file'.content, Len(before)))
              /\ Count(output_file'.content, HeaderLine) = 1]_vars

C15_Witness ==
    /\ SessionEnded
    /\ end_kind = "complete"
    /\ ~is_rechecking
    /\ online_count > 0
    /\ known_good_urls # {}
    /\ Len(Entries(output_file.content)) >= 2
    /\ Count(output_file.content, HeaderLine) = 1

\* C16: when a recheck session ends with at least one staged entry, the
\* output file's content is the staging file's content: its header, then
\* the staged entries, and nothing of the output of before.
C16_RecheckReplaces ==
    [][((GuiEnds \/ CliFinalizes) /\ is_rechecking' /\ online_count' > 0)
       => /\ output_file'.exists
          /\ output_file'.content # <<>>
          /\ Head(output_file'.content) = HeaderLine
          /\ StagedEntries(Tail(output_file'.content))
          /\ (CliFinalizes => output_file'.content = part_file.content)]_vars

C16_Witness ==
    /\ SessionEnded
    /\ is_rechecking
    /\ online_count > 0
    /\ \E r \in StreamUniverse :
         /\ r.group # "Radios"
         /\ output_file.content = <<HeaderLine, EntryLine(Regroup(r, "audio"))>>

\* C17: once a session has ended, by completion or by cancellation, no
\* staging file exists, and none appears afterwards.
C17_NoPartAfterEnd == SessionEnded => ~part_file.exists

C17_Witness ==
    /\ SessionEnded
    /\ end_kind = "cancelled"
    /\ online_count = 0
    /\ processed_count < total_stream_count
    /\ ~part_file.exists

\* the classification of a task retired for a per-task error
PerTaskError(detailed_status) ==
    /\ detailed_status # ""
    /\ ~IsOn(detailed_status)
    /\ detailed_status # "OFF (OCR: Error Screen)"

\* C18: when a session in which a task was retired for a per-task error is
\* declared complete, every admitted record has been probed and retired.
C18_ErrorsStayLocal ==
    (/\ end_kind = "complete"
     /\ \E i \in DOMAIN status : PerTaskError(status[i].detailed_status))
    => \A j \in DOMAIN status : status[j].detailed_status # ""

\* what a probe looks like whose capture succeeded and whose OCR step failed
OcrStepFailed == Exited(0, MIN_FILE_SIZE_BYTES, "ON (OCR Failed)")

\* r is s after the task idx with record stream_info was retired online
RetiredOnline(r, s, idx, stream_info) ==
    /\ r.status[idx].detailed_status = "ON (OCR Failed)"
    /\ r.processed_count = s.processed_count + 1
    /\ r.online_count = s.online_count + 1
    /\ r.part_file.exists
    /\ r.part_file.content = Append(s.part_file.content, EntryLine(stream_info))
    /\ r.uncheckable_disk = s.uncheckable_disk
    /\ r.uncheckable_count = s.uncheckable_count

ProbedKeys ==
    { TaskKey(active_processes[k].check_id, active_processes[k].idx) :
        k \in 1..Len(active_processes) }
    \cup { TaskKey(current_check_id, workers[w].idx) :
             w \in { v \in DOMAIN workers : /\ frontend = "cli"
                                            /\ workers[v].pc = "communicate"
                                            /\ workers[v].use_ffmpeg } }

FailedOpens == {"part", "uncheckable"}

\* AppGUI._start_check_internal when an open() of its line 1130 raises: the
\* statements before it have run, the rest (the headers, the counts, the
\* call of _monitor_workers) has not; there is no try around it, Tk reports
\* the exception of the callback and goes on with its main loop
StartCheckInternalRaises(s, all_streams, is_recheck, skip, failed) ==
    LET stamp == s.check_clock + 1
        known == IF skip /\ ~is_recheck /\ s.output_file.exists
                 THEN UrlsOf(ParseM3u(s.output_file.content)) ELSE {}
        s1 == [s EXCEPT !.is_running = TRUE, !.current_check_id = stamp,
                        !.check_clock = stamp, !.is_rechecking = is_recheck,
                        !.processed_count = 0, !.uncheckable_count = 0,
                        !.online_count = 0, !.end_kind = "running",
                        !.known_good_urls = known,
                        !.OCR_FAILED_ONCE = FALSE, !.ocr_notices = 0]
        todo == SkipKnown(all_streams, known)
    IN  IF todo = <<>>
        THEN StopProcessing([s1 EXCEPT !.streams_to_check = todo,
                                       !.end_kind = "nothing to check"])
        ELSE [s1 EXCEPT
                !.streams_to_check = todo,
                !.journal_file = IF failed = "uncheckable" THEN TRUE ELSE @,
                !.part_file = IF failed = "uncheckable" THEN File(<<>>) ELSE @]

\* AppCLI.run when an open() of its lines 1421-1422 raises: is_running is
\* still False and no thread is started; the exception leaves run() and
\* main(), the interpreter prints the traceback and the process ends
CliRunRaises(s, all_streams, is_recheck, no_skip, failed) ==
    LET known == IF ~is_recheck /\ ~no_skip /\ s.output_file.exists
                 THEN UrlsOf(ParseM3u(s.output_file.content)) ELSE {}
        todo == SkipKnown(all_streams, known)
    IN  IF all_streams = <<>> \/ todo = <<>>
        THEN CliRun(s, all_streams, is_recheck, no_skip)
        ELSE [s EXCEPT
                !.streams_to_check = todo,
                !.known_good_urls = known,
                !.part_file = IF failed = "uncheckable" THEN File(<<>>) ELSE @,
                !.cli_main = "done", !.end_kind = "start failed"]

\* GUI: "Start" or "Recheck output file" with records to check, an open()
\* of the start failing
StartRaises ==
    /\ frontend = "gui" /\ ~is_running /\ check_clock = 0
    /\ \E is_recheck \in BOOLEAN, skip \in BOOLEAN, failed \in FailedOpens :
         \E all_streams \in IF is_recheck
                            THEN {ParseM3u(output_file.content)} ELSE Playlists :
           /\ is_recheck => output_file.exists /\ ~skip
           /\ SkipKnown(all_streams,
                        IF skip /\ ~is_recheck /\ output_file.exists
                        THEN UrlsOf(ParseM3u(output_file.content)) ELSE {}) # <<>>
           /\ Becomes(StartCheckInternalRaises(State, all_streams, is_recheck,
                                               skip, failed))

\* CLI: run() with records to check, an open() of the start failing
CliStartRaises ==
    /\ frontend = "cli" /\ cli_main = "start"
    /\ \E is_recheck \in BOOLEAN, no_skip \in BOOLEAN, failed \in FailedOpens :
         \E all_streams \in IF is_recheck
                            THEN {ParseM3u(output_file.content)} ELSE Playlists :
           /\ is_recheck => output_file.exists
           /\ SkipKnown(all_streams,
                        IF ~is_recheck /\ ~no_skip /\ output_file.exists
                        THEN UrlsOf(ParseM3u(output_file.content)) ELSE {}) # <<>>
           /\ Becomes(CliRunRaises(State, all_streams, is_recheck, no_skip, failed))

NextOpen ==
    \/ Next
    \/ StartRaises
    \/ CliStartRaises

SpecOpen == Init /\ [][NextOpen]_vars

(***************************************************************************)
(* main(): the dependency check before either front end is constructed.    *)
(***************************************************************************)

\* the mode the arguments ask for: --gui, a CLI input option, or neither
Modes == {"gui", "cli", "help"}

\* main() after parse_args: sys.exit(1) when an essential tool is missing
\* (GUI and CLI alike), sys.exit(0) after the help text, otherwise the
\* front end is constructed
Main(s, mode) ==
    IF mode = "help" THEN [s EXCEPT !.frontend = "exit 0"]
    ELSE IF CheckDependencies(s.essential_deps) # {}
    THEN [s EXCEPT !.frontend = "exit 1"]
    ELSE [s EXCEPT !.frontend = mode]

\* the process at the entry of main(): no front end object exists
InitMain ==
    /\ frontend = "main"
    /\ essential_deps \in [EssentialNames -> BOOLEAN]
    /\ is_running = FALSE
    /\ current_check_id = None
    /\ is_rechecking = FALSE
    /\ streams_to_check = <<>>
    /\ known_good_urls = {}
    /\ active_processes = <<>>
    /\ processed_count = 0
    /\ online_count = 0
    /\ uncheckable_count = 0
    /\ total_stream_count = 0
    /\ journal_file = FALSE
    /\ uncheckable_file = FALSE
    /\ part_file = NoFile
    /\ output_file \in InitialOutputs
    /\ uncheckable_disk = NoFile
    /\ temp_files = {}
    /\ use_ocr \in BOOLEAN
    /\ workers_var = MaxWorkers
    /\ threads = {}
    /\ callbacks = {}
    /\ ticks = 0
    /\ workers = <<>>
    /\ cli_main = "start"
    /\ status = <<>>
    /\ end_kind = "never ran"
    /\ stale_drops = 0
    /\ child_only_kills = 0
    /\ check_clock = 0
    /\ lock = [owner |-> None, count |-> 0]
    /\ retiring = {}
    /\ timeout_var = DefaultTimeout
    /\ OCR_FAILED_ONCE = FALSE
    /\ ocr_notices = 0
    /\ loads = {}

\* the process runs main()
MainStep ==
    /\ frontend = "main"
    /\ \E mode \in Modes : Becomes(Main(State, mode))

NextMain ==
    \/ MainStep
    \/ Next

SpecMain == InitMain /\ [][NextMain]_vars

(***************************************************************************)
(* The network timeout handed to the probes.                               *)
(***************************************************************************)

\* the values of the GUI's timeout menu: range(2, 31)
TimeoutMenuFirst == 2
TimeoutMenuLast == 30
TimeoutMenu == TimeoutMenuFirst..TimeoutMenuLast

\* -t takes any integer (type=int, no range test); the values tried
TimeoutArgs ==
    {DefaultTimeout, WORKER_PROCESS_TIMEOUT_SECONDS - 1,
     WORKER_PROCESS_TIMEOUT_SECONDS, WORKER_PROCESS_TIMEOUT_SECONDS + 1}

\* build_timeout_config(network_timeout_s)['network_timeout_us'], the value
\* of the probe's -timeout option, in microseconds
BuildTimeoutConfig(network_timeout_s) == network_timeout_s * 1000000

\* main() with -t given: parse_args stores it, the front end starts with it
\* (AppGUI shows it as the timeout menu's first value)
MainTimeout(s, mode, timeout) ==
    Main([s EXCEPT !.timeout_var = timeout], mode)

\* the process runs main() with a -t argument
MainTimeoutStep ==
    /\ frontend = "main"
    /\ \E mode \in Modes, timeout \in TimeoutArgs :
         Becomes(MainTimeout(State, mode, timeout))

\* GUI: the user picks a value in the timeout menu
SelectTimeout ==
    /\ frontend = "gui"
    /\ \E timeout \in TimeoutMenu :
         Becomes([State EXCEPT !.timeout_var = timeout])

\* the tools are installed, OCR is off
InitTimeout ==
    /\ InitMain
    /\ CheckDependencies(essential_deps) = {}
    /\ ~use_ocr

NextTimeout ==
    \/ MainTimeoutStep
    \/ SelectTimeout
    \/ Next

SpecTimeout == InitTimeout /\ [][NextTimeout]_vars

(***************************************************************************)
(* write_m3u_header and write_m3u_entry followed by parse_m3u.             *)
(***************************************************************************)

\* stream records with an empty or non-empty title and group; parse_m3u
\* returns an empty title for a title of blanks (title.strip())
WrittenUniverse ==
    { [title |-> t, url |-> u, group |-> g] :
        t \in {"A", ""}, u \in {UrlPlain, UrlSecond}, g \in {"News", ""} }

\* a journal is opened and gets its header
JournalOpen ==
    /\ frontend = "gui" /\ ~journal_file /\ end_kind = "never ran"
    /\ Becomes([State EXCEPT !.journal_file = TRUE,
                             !.part_file = WriteHeader(TRUE, File(<<>>)),
                             !.end_kind = "running"])

\* a record classified online is journaled
JournalEntry ==
    /\ frontend = "gui" /\ journal_file /\ Len(status) < MaxStreams
    /\ \E stream_info \in WrittenUniverse :
         Becomes([State EXCEPT
                    !.part_file = WriteEntry(journal_file, @, stream_info),
                    !.status = Append(@, [stream_info |-> stream_info,
                                          detailed_status |-> "ON"]),
                    !.online_count = @ + 1, !.processed_count = @ + 1])

\* the journal is closed and read as a recheck reads it: parse_m3u on the
\* content of the file
JournalReadBack ==
    /\ frontend = "gui" /\ journal_file
    /\ Becomes([State EXCEPT !.journal_file = FALSE,
                             !.streams_to_check = ParseM3u(part_file.content),
                             !.end_kind = "read back"])

InitJournal == InitGUI /\ output_file = NoFile /\ ~use_ocr /\ workers_var = MaxWorkers
NextJournal ==
    \/ JournalOpen
    \/ JournalEntry
    \/ JournalReadBack

SpecJournal == InitJournal /\ [][NextJournal]_vars

(***************************************************************************)
(* The status text each retirement writes to the log.                      *)
(***************************************************************************)

\* AppGUI._process_result: gui_status_text, "ON" or "OFF"; detailed_status
\* is not logged
ProcessResultLog(detailed_status) ==
    IF IsOn(detailed_status) THEN "ON" ELSE "OFF"

\* AppGUI._handle_worker_failure: 'OFF ' + reason
HandleWorkerFailureLog(reason) == "OFF " \o reason

\* AppCLI._handle_cli_result: 'ON', or detailed_status as _execute_check left it
HandleCliResultLog(detailed_status) ==
    IF IsOn(detailed_status) THEN "ON" ELSE detailed_status

\* AppCLI._handle_cli_failure: the reason
HandleCliFailureLog(reason) == reason

(***************************************************************************)
(* The CLI pool with the except branch of _perform_ocr_check step by step: *)
(* the worker threads run _execute_check, and with it the OCR step,        *)
(* outside the lock.                                                       *)
(***************************************************************************)

\* "if not OCR_FAILED_ONCE": the flag is read
OcrTest(s, w) ==
    [s EXCEPT !.workers[w].pc = IF s.OCR_FAILED_ONCE THEN "ocr_return" ELSE "ocr_log"]

\* self.log("[!] OCR check failed. Assuming 'ON'."): printed under the lock
OcrLog(s, w) ==
    [CliLog(s, w) EXCEPT !.ocr_notices = @ + 1, !.workers[w].pc = "ocr_set"]

\* "OCR_FAILED_ONCE = True"
OcrSet(s, w) ==
    [s EXCEPT !.OCR_FAILED_ONCE = TRUE, !.workers[w].pc = "ocr_return"]

\* return "ON (OCR Failed)", the rest of _execute_check and _handle_cli_result
OcrReturn(s, w) ==
    LET me == s.workers[w]
        key == TaskKey(s.current_check_id, me.idx)
        s2 == [s EXCEPT !.temp_files = @ \ {key}]
    IN  [Journal(s2, me.idx, s.status[me.idx].stream_info, "ON (OCR Failed)",
                 me.check_type)
           EXCEPT !.workers[w].pc = "while"]

\* CLI: one step of one worker thread
OcrWorker ==
    /\ frontend = "cli" /\ cli_main = "wait"
    /\ \E w \in DOMAIN workers :
         CASE workers[w].pc = "while" -> Becomes(WorkerWhile(State, w))
           [] workers[w].pc = "pop" -> Becomes(WorkerPop(State, w))
           [] workers[w].pc = "check" -> Becomes(WorkerCheck(State, w))
           [] workers[w].pc = "prepare" ->
                \E outcome \in PrepareOutcomes(status[workers[w].idx].stream_info),
                   spawned \in BOOLEAN :
                     Becomes(WorkerPrepare(State, w, outcome, spawned))
           [] workers[w].pc = "communicate" ->
                \E look \in Looks(IF workers[w].use_ffmpeg THEN "ffmpeg" ELSE "ffprobe") :
                     /\ look.rc = NoExit => look.elapsed > WORKER_PROCESS_TIMEOUT_SECONDS
                     /\ IF /\ look.rc # NoExit
                           /\ CliDetailedStatus(State,
                                                TaskKey(current_check_id, workers[w].idx),
                                                workers[w].use_ffmpeg, look)
                                = "ON (OCR Failed)"
                        THEN Becomes([State EXCEPT !.workers[w].pc = "ocr_test"])
                        ELSE Becomes(WorkerCommunicate(State, w, look))
           [] workers[w].pc = "ocr_test" -> Becomes(OcrTest(State, w))
           [] workers[w].pc = "ocr_log" ->
                CanAcquire(State, w) /\ Becomes(OcrLog(State, w))
           [] workers[w].pc = "ocr_set" -> Becomes(OcrSet(State, w))
           [] workers[w].pc = "ocr_return" -> Becomes(OcrReturn(State, w))
           [] OTHER -> FALSE

InitOcr == InitCLI /\ use_ocr /\ workers_var = MaxWorkers /\ output_file = NoFile
NextOcr ==
    \/ CliStart
    \/ Sigint
    \/ OcrWorker
    \/ CliEnd
SpecOcr == InitOcr /\ [][NextOcr]_vars

(***************************************************************************)
(* The GUI with starts that abort before _start_check_internal runs.       *)
(***************************************************************************)

\* an output file this program wrote earlier, with two entries
OutputOfTwo ==
    File(<<HeaderLine,
           EntryLine([title |-> "A", url |-> UrlPlain, group |-> "News"]),
           EntryLine([title |-> "B", url |-> UrlSecond, group |-> "News"])>>)

\* start_processing / start_database_check whose load fails (file not found,
\* download error, empty database): do_start_check posts stop_processing
\* and _start_check_internal never runs, so is_rechecking keeps the value
\* the last session gave it
AbortedStart(s) ==
    StopProcessing([s EXCEPT !.end_kind = "load failed"])

\* GUI: "Start" or "Check database" with an input that fails to load
LoadFails ==
    /\ frontend = "gui" /\ ~is_running
    /\ Becomes(AbortedStart(State))

\* the application started on an output file of two entries, OCR off
InitOfTwo ==
    /\ frontend \in {"gui", "cli"}
    /\ output_file = OutputOfTwo
    /\ essential_deps = [name \in EssentialNames |-> TRUE]
    /\ is_running = FALSE
    /\ current_check_id = None
    /\ is_rechecking = FALSE
    /\ streams_to_check = <<>>
    /\ known_good_urls = {}
    /\ active_processes = <<>>
    /\ processed_count = 0
    /\ online_count = 0
    /\ uncheckable_count = 0
    /\ total_stream_count = 0
    /\ journal_file = FALSE
    /\ uncheckable_file = FALSE
    /\ part_file = NoFile
    /\ uncheckable_disk = NoFile
    /\ temp_files = {}
    /\ use_ocr = FALSE
    /\ workers_var = MaxWorkers
    /\ threads = {}
    /\ callbacks = {}
    /\ ticks = 0
    /\ workers = <<>>
    /\ cli_main = "start"
    /\ status = <<>>
    /\ end_kind = "never ran"
    /\ stale_drops = 0
    /\ child_only_kills = 0
    /\ check_clock = 0
    /\ lock = [owner |-> None, count |-> 0]
    /\ retiring = {}
    /\ timeout_var = DefaultTimeout
    /\ OCR_FAILED_ONCE = FALSE
    /\ ocr_notices = 0
    /\ loads = {}

\* the GUI started on an output file of two entries
InitAbort == InitOfTwo /\ frontend = "gui"

NextAbort ==
    \/ NextGUI
    \/ LoadFails

SpecAbort == InitAbort /\ [][NextAbort]_vars

\* either front end started on an output file of two entries: its first
\* session
SpecOfTwo == InitOfTwo /\ [][Next]_vars

(***************************************************************************)
(* The GUI with the loading phase of start_processing made explicit: the   *)
(* playlist is loaded in a thread and _start_check_internal is posted to   *)
(* the main loop.                                                          *)
(***************************************************************************)

\* start_processing up to the posted call: the UI goes into its checking
\* state (Start disabled, Stop enabled), do_start_check loads the playlist
\* and posts after(0, _start_check_internal, all_streams, is_recheck)
StartProcessing(s, all_streams, is_recheck) ==
    IF s.is_running THEN s
    ELSE [s EXCEPT !.loads = @ \cup {[all_streams |-> all_streams,
                                      is_recheck |-> is_recheck]},
                   !.end_kind = "loading"]

\* GUI: "Start"; the load succeeds.  Nothing but is_running, which stays
\* False until _start_check_internal runs, refuses a request made during a
\* load (_periodic_internet_check re-enables the Start button and the menus
\* while not is_running)
BeginLoad ==
    /\ frontend = "gui" /\ Cardinality(loads) < MaxLoads /\ check_clock < MaxRestarts
    /\ \E all_streams \in Playlists :
         Becomes(StartProcessing(State, all_streams, FALSE))

\* GUI: "Recheck output file"; the load succeeds
BeginRecheckLoad ==
    /\ frontend = "gui" /\ Cardinality(loads) < MaxLoads /\ check_clock < MaxRestarts
    /\ output_file.exists
    /\ Becomes(StartProcessing(State, ParseM3u(output_file.content), TRUE))

\* GUI: the main loop delivers the posted _start_check_internal
StartLands ==
    /\ frontend = "gui"
    /\ \E l \in loads, obs \in LooksAt(active_processes) :
         Becomes(StartCheckInternal([State EXCEPT !.loads = @ \ {l}],
                                    l.all_streams, l.is_recheck, FALSE, obs))

\* GUI: the user presses "Stop", which _set_ui_state_for_checking(True)
\* enabled, while the playlist is still loading or its start is posted
StopWhileLoading ==
    /\ frontend = "gui" /\ loads # {} /\ ~is_running
    /\ Becomes(StopProcessing([State EXCEPT !.end_kind = "cancelled"]))

\* the GUI started on an output file of an earlier run, OCR off
InitLoad ==
    /\ InitGUI /\ ~use_ocr /\ workers_var = MaxWorkers
    /\ output_file \notin {NoFile, File(<<>>)}

NextLoad ==
    \/ BeginLoad
    \/ BeginRecheckLoad
    \/ StartLands
    \/ StopWhileLoading
    \/ Thread
    \/ Deliver
    \/ Tick
    \/ UserStop

SpecLoad == InitLoad /\ [][NextLoad]_vars

InHandler == { w \in DOMAIN workers : workers[w].pc \in {"read", "write"} }

\* C21: in the CLI at most one worker thread is inside the block of
\* _handle_cli_result / _handle_cli_failure, and it owns the lock; no counter
\* update is lost: processed_count is the number of retired tasks,
\* online_count the number of them classified online and of the entries in
\* the staging file, uncheckable_count the number of entries in the
\* uncheckable file.
C21_RetirementSerialized ==
    /\ Cardinality(InHandler) <= 1
    /\ \A w \in InHandler : lock.owner = w /\ lock.count = 1
    /\ InHandler = {} => lock.owner = None
    /\ processed_count
         = Cardinality({ i \in DOMAIN status : status[i].detailed_status # "" })
    /\ online_count
         = Cardinality({ i \in DOMAIN status : IsOn(status[i].detailed_status) })
    /\ part_file.exists => Len(Entries(part_file.content)) = online_count
    /\ uncheckable_disk.exists
         => Len(Entries(uncheckable_disk.content)) = uncheckable_count

C21_Witness ==
    /\ \E w \in InHandler : workers[w].pc = "write"
    /\ \E v \in DOMAIN workers : workers[v].pc = "acquire"
    /\ lock.owner # None

C23_FailedStartAborts ==
    is_running =>
        \/ frontend = "gui" /\ ticks > 0
        \/ frontend = "cli" /\ cli_main = "wait"

\* C24: while an essential tool (ffmpeg, ffprobe, yt-dlp) is missing no
\* session starts in either front end: no front end is constructed, no
\* journal is opened or created, no record is queued, admitted or retired.
C24_NoSessionWithoutTools ==
    (\E name \in EssentialNames : ~essential_deps[name]) =>
        /\ frontend \in {"main", "exit 0", "exit 1"}
        /\ ~is_running /\ current_check_id = None
        /\ ~journal_file /\ ~uncheckable_file
        /\ part_file = NoFile /\ uncheckable_disk = NoFile
        /\ streams_to_check = <<>> /\ status = <<>>
        /\ active_processes = <<>> /\ threads = {} /\ callbacks = {}
        /\ workers = <<>> /\ processed_count = 0
        /\ end_kind = "never ran"

C24_Witness ==
    /\ frontend = "exit 1"
    /\ \A name \in EssentialNames : essential_deps[name] <=> name # "yt-dlp"

\* C25: whatever network timeout is configured (GUI menu, CLI -t), the
\* value handed to a probe is strictly shorter than the pool's per-task
\* ceiling WORKER_PROCESS_TIMEOUT_SECONDS.
C25_CeilingLonger ==
    (active_processes # <<>> \/ \E w \in DOMAIN workers : workers[w].pc = "communicate")
        => BuildTimeoutConfig(WORKER_PROCESS_TIMEOUT_SECONDS) > BuildTimeoutConfig(timeout_var)

\* C26: the records parse_m3u reads from a file written by write_m3u_header
\* and write_m3u_entry have the URLs of the records written, no more and no
\* fewer, empty titles and empty groups included.
C26_RoundTrip ==
    end_kind = "read back" =>
        UrlsOf(streams_to_check) = { status[i].stream_info.url : i \in DOMAIN status }

\* a logged status text that says more than online or offline
CarriesReason(text) == text \notin {"", "ON", "OFF"}

\* C27: whatever a probe of the running session turns out to be, if its
\* task is retired offline the text logged for it carries the reason, in the
\* GUI (_process_result, _handle_worker_failure) and in the CLI
\* (_handle_cli_result, _handle_cli_failure).
C27_ReasonLogged ==
    /\ \A k \in 1..Len(active_processes) : \A look \in Looks(active_processes[k].probe_type) :
         LET data == active_processes[k]
             detailed_status == DetailedStatus(State, data, look)
         IN  (/\ frontend = "gui"
              /\ data.check_id = current_check_id
              /\ look.rc # NoExit
              /\ ~IsOn(detailed_status))
             => CarriesReason(ProcessResultLog(detailed_status))
    /\ \A c \in callbacks :
         (c.kind = "_handle_worker_failure" /\ c.check_id = current_check_id)
         => CarriesReason(HandleWorkerFailureLog(c.reason))
    /\ \A w \in DOMAIN workers :
         \A look \in Looks(IF workers[w].use_ffmpeg THEN "ffmpeg" ELSE "ffprobe") :
           LET detailed_status ==
                 CliDetailedStatus(State, TaskKey(current_check_id, workers[w].idx),
                                   workers[w].use_ffmpeg, look)
           IN  (/\ frontend = "cli" /\ cli_main = "wait"
                /\ workers[w].pc = "communicate"
                /\ look.rc # NoExit
                /\ ~IsOn(detailed_status))
               => CarriesReason(HandleCliResultLog(detailed_status))

\* C28: in the CLI the external processes that can exist never outnumber the
\* worker threads: the probes the threads block on, plus the process groups
\* of timed-out probes that got no signal and were not waited for.
C28_CliProcessBound ==
    frontend = "cli" =>
        Cardinality({ w \in DOMAIN workers : workers[w].pc = "communicate" })
            + child_only_kills <= workers_var

\* the tasks of s admitted and not yet retired: being prepared, waiting for
\* their launch, or probing
InFlight(s) ==
    Len(s.active_processes) + Cardinality(s.threads)
        + Cardinality({ c \in s.callbacks : c.kind = "_schedule_process" })

\* a running GUI session in which nothing but scheduler ticks has happened
\* since its start: no preparation thread has run, nothing is retired
OnlyTicksSoFar ==
    /\ frontend = "gui" /\ is_running
    /\ processed_count = 0 /\ stale_drops = 0
    /\ active_processes = <<>> /\ callbacks = {}
    /\ Cardinality(threads) + Len(streams_to_check) = total_stream_count

\* C29: after the admission step of a tick of the GUI scheduler the pool is
\* full or the queue is empty: the tasks in flight are at least maxWorkers,
\* or no record is left queued.  The ticks are the call of _monitor_workers
\* that ends a session start and each firing of its timer; the first
\* conjunct looks at the states in which only ticks have run, the second
\* applies a tick to every reachable state and every look at the probes.
C29_AdmissionFills ==
    /\ OnlyTicksSoFar =>
          InFlight(State) >= workers_var \/ streams_to_check = <<>>
    /\ (frontend = "gui" /\ is_running /\ ticks > 0) =>
          \A obs \in LooksAt(active_processes) :
              LET r == MonitorWorkers([State EXCEPT !.ticks = @ - 1], obs)
              IN  InFlight(r) >= r.workers_var \/ r.streams_to_check = <<>>

\* every way a probe can have ended: exit status zero or not, an artifact
\* below, at and above the threshold, every answer of the OCR step
VerdictLooks ==
    { Exited(rc, size, ocr) :
        rc \in {0, 1},
        size \in {0, MIN_FILE_SIZE_BYTES - 1, MIN_FILE_SIZE_BYTES, MIN_FILE_SIZE_BYTES + 1},
        ocr \in OcrResults }

\* the verdict required for a probe that ended as look: a metadata probe
\* is online iff it exited with zero; a capture probe is handed to the OCR
\* step (the verdict is its answer) iff it exited with zero and its artifact
\* is large enough, and is offline otherwise
Verdict(v, probe_type, large_enough, look, probe_error, capture_error) ==
    IF probe_type = "ffprobe"
    THEN v = (IF look.rc = 0 THEN "ON" ELSE probe_error)
    ELSE v = (IF look.rc = 0 /\ large_enough THEN look.ocr ELSE capture_error)

\* the verdicts of the probes of the running session, GUI and CLI, for every
\* way they can end, against Verdict; at_least is whether an artifact of
\* exactly the threshold is large enough
VerdictsFollow(at_least) ==
    /\ \A k \in 1..Len(active_processes) : \A look \in VerdictLooks :
         LET data == active_processes[k]
             r == ProcessResult(State, data, look)
             large == /\ TaskKey(data.check_id, data.idx) \in temp_files
                      /\ IF at_least THEN look.size >= MIN_FILE_SIZE_BYTES
                         ELSE look.size > MIN_FILE_SIZE_BYTES
         IN  (frontend = "gui" /\ data.check_id = current_check_id)
             => Verdict(r.status[data.idx].detailed_status, data.probe_type, large,
                        look, "OFF (Probe Error)", "OFF (Capture Error)")
    /\ \A w \in DOMAIN workers : \A look \in VerdictLooks :
         LET me == workers[w]
             r == WorkerCommunicate(State, w, look)
             large == /\ TaskKey(current_check_id, me.idx) \in temp_files
                      /\ IF at_least THEN look.size >= MIN_FILE_SIZE_BYTES
                         ELSE look.size > MIN_FILE_SIZE_BYTES
         IN  (frontend = "cli" /\ cli_main = "wait" /\ me.pc = "communicate")
             => Verdict(r.status[me.idx].detailed_status,
                        IF me.use_ffmpeg THEN "ffmpeg" ELSE "ffprobe", large,
                        look, "OFF", "OFF")

\* C30 as stated: a capture is handed to the OCR step iff it exited with zero
\* and its artifact is above MIN_FILE_SIZE_BYTES; one of exactly the
\* threshold size is offline.
C30_VerdictAbove == VerdictsFollow(FALSE)

\* C30: the verdict of a finished probe is a function of its mode, its exit
\* status and the size of its artifact: a metadata probe is online iff it
\* exited with zero; a capture probe is handed to the OCR step iff it exited
\* with zero and its artifact exists with at least MIN_FILE_SIZE_BYTES bytes,
\* one of exactly the threshold size included; every other probe is offline.
C30_VerdictAtLeast == VerdictsFollow(TRUE)

C30_Witness ==
    /\ use_ocr
    /\ \E i \in DOMAIN status : status[i].detailed_status = "OFF (OCR: Error Screen)"
    /\ \E i \in DOMAIN status :
         status[i].detailed_status \in {"OFF (Capture Error)", "OFF"}

\* the tasks of the session retired so far, and those retired online
Retired == { i \in DOMAIN status : status[i].detailed_status # "" }
RetiredOn == { i \in DOMAIN status : IsOn(status[i].detailed_status) }

\* C31: while a session's journals are open, processed_count is the number
\* of tasks retired and online_count the number of them retired online;
\* online_count is the number of entries in the staging file,
\* uncheckable_count the number of entries in the uncheckable file, and
\* online_count + uncheckable_count <= processed_count <= total_stream_count.
C31_CountersMatch ==
    journal_file =>
        /\ processed_count = Cardinality(Retired)
        /\ online_count = Cardinality(RetiredOn)
        /\ online_count = Len(Entries(part_file.content))
        /\ uncheckable_count = Len(Entries(uncheckable_disk.content))
        /\ online_count + uncheckable_count <= processed_count
        /\ processed_count <= total_stream_count

C31_Witness ==
    /\ journal_file
    /\ processed_count = 2 /\ online_count = 1 /\ uncheckable_count = 1

\* the number of places that hold task i of the current session on its way
\* to an outcome: a GUI preparation thread, a pending GUI callback, a
\* registered probe, a CLI worker thread between its pop and its retirement
Holders(i) ==
    Cardinality({ t \in threads : t.idx = i /\ t.check_id = current_check_id })
    + Cardinality({ c \in callbacks : c.idx = i /\ c.check_id = current_check_id })
    + Cardinality({ k \in 1..Len(active_processes) :
                      /\ active_processes[k].idx = i
                      /\ active_processes[k].check_id = current_check_id })
    + Cardinality({ w \in DOMAIN workers :
                      /\ workers[w].idx = i
                      /\ workers[w].pc \in {"check", "prepare", "communicate"} })

\* record i of the session's list is still in the pending queue
Queued(i) == i > total_stream_count - Len(streams_to_check)

\* C32: a record of the session is in one place at a time: still queued, or
\* held by exactly one thread, callback or probe, or retired; a held record
\* has no outcome yet and a retired one is held by nobody, so that no record
\* is popped twice or retired twice.  While the session runs every record
\* is in one of the three.
C32_OneOutcome ==
    /\ \A i \in DOMAIN status :
         /\ Holders(i) <= 1
         /\ Holders(i) = 1 => (status[i].detailed_status = "" /\ ~Queued(i))
         /\ status[i].detailed_status # "" => ~Queued(i)
    /\ (is_running /\ journal_file) =>
         /\ Len(status) = total_stream_count
         /\ \A i \in DOMAIN status :
              Queued(i) \/ Holders(i) = 1 \/ status[i].detailed_status # ""

C32_Witness ==
    /\ is_running /\ total_stream_count = 2 /\ streams_to_check = <<>>
    /\ Holders(1) = 0 /\ status[1].detailed_status = "OFF (Timeout)"
    /\ Holders(2) = 1

\* C33: within one session the notice "[!] OCR check failed" is logged at
\* most once, however many tasks fail in the OCR step and however the
\* threads interleave.
C33_NoticeOnce == ocr_notices <= 1

\* C34: when the GUI has declared a session complete, no record admitted in
\* that session is still on its way: no preparation thread of the session
\* is running and none of its _schedule_process / _handle_worker_failure
\* callbacks is pending.
C34_CompleteMeansRetired ==
    (frontend = "gui" /\ end_kind = "complete") =>
        /\ \A t \in threads : t.check_id # check_clock
        /\ \A c \in callbacks : c.check_id # check_clock

\* C35: a start that aborts before _start_check_internal runs leaves the
\* output file as it is, whatever the session before it was.
C35_AbortKeepsOutput ==
    [][end_kind' = "load failed" => output_file' = output_file]_vars

\* C36: once stop_processing has run, no session runs until the user starts
\* a new check: from a state whose last event is the stop, no step sets
\* is_running.
C36_StopPreventsStart ==
    [][end_kind = "cancelled" => ~is_running']_vars

CancelledRecheckEnds ==
    /\ is_rechecking
    /\ \/ GuiEnds /\ end_kind' = "cancelled"
       \/ CliFinalizes /\ end_kind = "cancelled"

\* content holds an entry for url
HoldsUrl(content, url) ==
    \E k \in DOMAIN content : IsEntry(content[k]) /\ content[k].url = url

Decision(before, after) ==
    [processed   |-> after.processed_count - before.processed_count,
     online      |-> after.online_count - before.online_count,
     uncheckable |-> after.uncheckable_count - before.uncheckable_count,
     staging     |-> after.part_file,
     uncheckable_m3u |-> after.uncheckable_disk]

\* the GUI retiring record idx whose probe ran out of time (_monitor_workers
\* posts _handle_worker_failure with "(Timeout)") or could not be launched
\* (_schedule_process posts it with "(Schedule Error)")
GuiRetiresFailed(s, idx, reason) ==
    HandleWorkerFailure(s, s.status[idx].stream_info, idx, reason, s.current_check_id)

\* the CLI retiring record idx whose probe ran out of time or could not be
\* launched: _execute_check passes "OFF (Timeout)" / "OFF (Execution Error)"
\* to _handle_cli_result
CliRetiresFailed(s, idx, detailed_status, check_type) ==
    Journal(s, idx, s.status[idx].stream_info, detailed_status, check_type)

\* C38: for the same record and the same external outcome the GUI and the
\* CLI make the same journaling decision; here for a probe that times out
\* and for a probe that cannot be launched, from the same counters and files.
C38_SameDecision ==
    (is_running /\ journal_file /\ uncheckable_file)
    => \A idx \in DOMAIN status : \A check_type \in {"video", "audio"} :
         status[idx].detailed_status = ""
         => /\ Decision(State, GuiRetiresFailed(State, idx, "(Timeout)"))
                 = Decision(State, CliRetiresFailed(State, idx, "OFF (Timeout)",
                                                    check_type))
            /\ Decision(State, GuiRetiresFailed(State, idx, "(Schedule Error)"))
                 = Decision(State, CliRetiresFailed(State, idx,
                                                    "OFF (Execution Error)",
                                                    check_type))

\* C39: the GUI has at most one _monitor_workers tick chain: at most one
\* after(100, _monitor_workers) timer is pending at any time.
C39_OneTickChain == frontend = "gui" => ticks <= 1

====
